---- MODULE Spec2Model ----
(***************************************************************************)
(* A model of MUSCLE's DataNode tree (reflector/DataNode.cpp, carried in   *)
(* src/reflector/ServerComponent.h from line 310 on) and of its reference- *)
(* counting handles (src/util/RefCount.h).                                 *)
(*                                                                         *)
(* Node names are sequences of one-character strings, so that the          *)
(* "I<counter>" names InsertOrderedChild() prints and the atol() that      *)
(* SetParent() applies to them are computed, not assumed.                  *)
(***************************************************************************)
EXTENDS Integers, Sequences, FiniteSets, TLC

\* ------------------------------------------------------------------ bounds
\* DataNode objects that exist in the general tree specification (Spec).
MaxNodes == 3
\* DataNode objects that exist in the index specification (IndexSpec).
MaxIndexNodes == 3
\* DataNode objects that exist in the single-parent specification (FlatSpec).
MaxFlatNodes == 6
\* Longest ordered index the index operations are allowed to build.
MaxIndexLen == 2
\* Longest ordered index in the specification of InsertOrderedChild's place.
MaxOrderLen == 3
\* Longest ordered index in the single-parent specification.
MaxFlatIndexLen == 4
\* Unnamed InsertOrderedChild() calls are issued while _orderedCounter is
\* at most this far from its starting value.
MaxCounterSteps == 7
\* DataNode objects that exist in the deep-tree specification (DeepSpec).
MaxDeepNodes == 4
\* Nodes and index length of the checksum specification.
MaxDataNodes == 3
MaxDataIndexLen == 1
\* Nodes of the payload specifications.
MaxPayloadNodes == 2
\* Distinct payloads, and the largest depth given to CalculateChecksum().
MaxMessages == 1
MaxRecursionDepth == 1
\* Nodes of the path specification, the longest path searched for and the
\* largest maxDepth given to FindFirstMatchingNode().
MaxPathNodes == 3
MaxPathLen == 3
MaxDepthArg == 2
\* Threads of the concurrent specification; each runs the operations of one
\* handle slot.
MaxThreads == 3
\* Threads that share an object in the copy-on-write specification, and the
\* objects that exist or can be allocated there.
MaxSharers == 2
\* Nodes in the specification where nodes are recycled.
MaxReuseNodes == 3
\* The width, in bits, that stands for uint64 in OnceEvery().
TimeBits == 3
\* Children of a MultiDataIO, the largest size given to Write(), and the
\* seek position up to which Write() is called.
MaxIOChildren == 2
MaxWriteSize == 2
MaxSeekPos == 2
\* Nodes in the specification of _maxChildIDHint.
MaxHintNodes == 3
MaxCloneObjects == 3
\* ByteBuffer calls made in a row.
MaxBufferCalls == 3
\* Handle objects (ConstRef/Ref) that may exist at the same time.
MaxHandles == 2
\* RefCountable objects the handles may point to.
MaxObjects == 2

\* _orderedCounter and _depth are uint32 in the program and natural numbers
\* here: the guards keep them far below 2^32, which is also beyond the
\* integers TLC computes with. _maxChildIDHint is the 32-bit integer with
\* the same bits as the uint32: a negative number v stands for 2^32 + v.

NULL == 0

\* --------------------------------------------------------------- variables
VARIABLES
  alloc,           \* DataNode objects handed out by GetNewDataNode()
  nodeName,        \* _nodeName
  parent,          \* _parent (NULL or a node)
  depth,           \* _depth
  children,        \* _children: the nodes held by the child table (keys are their names)
  hasChildren,     \* _children != NULL
  orderedIndex,    \* _orderedIndex: sequence of nodes
  hasIndex,        \* _orderedIndex != NULL
  orderedCounter,  \* _orderedCounter
  maxChildIDHint,  \* _maxChildIDHint
  data,            \* _data: NULL or a Message
  cachedDataChecksum, \* _cachedDataChecksum: a uint32 as <<high 16 bits, low 16 bits>>
  events,          \* notifications emitted by the last operation, in order
  last             \* the last operation: its arguments and its return value

treeVars == <<alloc, nodeName, parent, depth, children, hasChildren,
              orderedIndex, hasIndex, orderedCounter, maxChildIDHint,
              data, cachedDataChecksum, events, last>>

VARIABLES
  hPtr,            \* per handle slot: _item's pointer (NULL or an object)
  hBit,            \* per handle slot: _item's bool (the do-refcount bit)
  hLive,           \* per handle slot: the handle object exists
  refCount,        \* per object: _refCount
  objState,        \* per object: "live", "recycled" (RecycleObject) or "deleted"
  releases,        \* per object: how many times it was recycled or deleted
  manager,         \* per object: whether its _manager is set (to the ObjectPool)
  owner,           \* per handle slot: the object the handle is a data member of, or NULL
  hPc,             \* per handle slot: where the thread running UnrefItem() on it stands
  lastRef          \* the last handle operation

refVars == <<hPtr, hBit, hLive, refCount, objState, releases, manager, owner, hPc,
             lastRef>>

VARIABLES
  childIOs,        \* MultiDataIO::_childIOs: the children, first to last
  ioPos,           \* per child DataIO: its seek position
  absorbPartialErrors, \* MultiDataIO::_absorbPartialErrors
  lastIO,          \* the last MultiDataIO call and what it returned
  clock,           \* GetRunTime64()
  lastTime,        \* the state variable the caller passes to OnceEvery()
  lastCall         \* the last OnceEvery() call

utilVars == <<childIOs, ioPos, absorbPartialErrors, lastIO, clock, lastTime, lastCall>>

VARIABLES
  numValidBytes,      \* ByteBuffer::_numValidBytes, a uint32 as <<high 16 bits, low 16 bits>>
  numAllocatedBytes,  \* ByteBuffer::_numAllocatedBytes, likewise
  lastBuf             \* the last ByteBuffer call and what it returned

bufVars == <<numValidBytes, numAllocatedBytes, lastBuf>>

vars == <<treeVars, refVars, utilVars, bufVars>>

\* ------------------------------------------------------------ name strings
DigitChars == <<"0", "1", "2", "3", "4", "5", "6", "7", "8", "9">>

IsDigit(c) == \E i \in 1..10 : DigitChars[i] = c

DigitVal(c) == (CHOOSE i \in 1..10 : DigitChars[i] = c) - 1

\* printf("%u"): the decimal digits of n, most significant first.
RECURSIVE UInt32ToString(_)
UInt32ToString(n) ==
  IF n < 10 THEN <<DigitChars[n + 1]>>
  ELSE UInt32ToString(n \div 10) \o <<DigitChars[(n % 10) + 1]>>

\* muscleSprintf(buf, "I" UINT32_FORMAT_SPEC, counter)
AutoName(k) == <<"I">> \o UInt32ToString(k)

RECURSIVE AtolDigits(_, _, _)
AtolDigits(s, i, acc) ==
  IF i > Len(s) \/ ~IsDigit(s[i]) THEN acc
  ELSE AtolDigits(s, i + 1, acc * 10 + DigitVal(s[i]))

RECURSIVE SkipSpaces(_, _)
SkipSpaces(s, i) == IF i <= Len(s) /\ s[i] = " " THEN SkipSpaces(s, i + 1) ELSE i

\* atol(&s[from]): optional blanks, an optional sign, then the leading digits.
Atol(s, from) ==
  LET i == SkipSpaces(s, from) IN
  IF i <= Len(s) /\ s[i] = "-" THEN 0 - AtolDigits(s, i + 1, 0)
  ELSE IF i <= Len(s) /\ s[i] = "+" THEN AtolDigits(s, i + 1, 0)
  ELSE AtolDigits(s, i, 0)

\* (uint32) atol(&nn[(*nn=='I')?1:0]); the cast keeps the low 32 bits, which
\* for the short names used here are the bits of atol's result.
ChildIDOf(nm) ==
  Atol(nm, IF Len(nm) > 0 /\ nm[1] = "I" THEN 2 ELSE 1)

Max(a, b) == IF a >= b THEN a ELSE b

\* muscleMax() of two uint32 values given by their bits: the values from
\* 2^31 on (negative here) are above all others.
MaxUInt32(a, b) ==
  IF (a < 0) = (b < 0) THEN Max(a, b)
  ELSE IF a < 0 THEN a ELSE b

\* uint32 values are pairs <<high 16 bits, low 16 bits>>; Add32 is uint32 "+",
\* which wraps at 2^32.
Zero32 == <<0, 0>>

Add32(a, b) ==
  LET lo == a[2] + b[2]
      hi == a[1] + b[1] + (lo \div 65536)
  IN <<hi % 65536, lo % 65536>>

\* String::CalculateChecksum() of a node name and Message::CalculateChecksum()
\* of a payload: some functions into uint32. The values are chosen so that
\* one name+payload sum wraps to exactly 0 and another wraps past 0.
NameChecksum(nm) ==
  IF nm = <<"a">> THEN <<35535, 36>>
  ELSE IF nm = <<"b">> THEN <<40000, 98>>
  ELSE <<0, Len(nm)>>

MessageChecksum(msg) ==
  IF msg = 1 THEN <<30000, 65500>> ELSE <<0, msg>>

\* ------------------------------------------------------------- containers
\* Queue::InsertItemAt(i, x) for 0 <= i <= GetNumItems()
QueueInsertItemAt(q, i, x) == SubSeq(q, 1, i) \o <<x>> \o SubSeq(q, i + 1, Len(q))

\* Queue::RemoveItemAt(i) for 0 <= i < GetNumItems()
QueueRemoveItemAt(q, i) == SubSeq(q, 1, i) \o SubSeq(q, i + 2, Len(q))

\* The items a queue holds.
Range(q) == {q[i] : i \in 1..Len(q)}

\* ------------------------------------------------------------------ events
Ev(type, node, op, pos, name) ==
  [type |-> type, node |-> node, op |-> op, pos |-> pos, name |-> name, old |-> NULL]

NewNodeEv(n)                == Ev("NewNode", n, "", 0, <<>>)
NodeChangedEv(n, old, flag) == [Ev("NodeChanged", n, flag, 0, <<>>) EXCEPT !.old = old]
IndexChangedEv(p, op, i, k) == Ev("IndexChanged", p, op, i, k)

\* ---------------------------------------------------------- the node store
\* The operations below are functions from a store (all nodes' fields, the
\* notifications emitted so far and the return value) to a store.
Store ==
  [alloc |-> alloc, nodeName |-> nodeName, parent |-> parent, depth |-> depth,
   children |-> children, hasChildren |-> hasChildren,
   orderedIndex |-> orderedIndex, hasIndex |-> hasIndex,
   orderedCounter |-> orderedCounter, maxChildIDHint |-> maxChildIDHint,
   data |-> data, cachedDataChecksum |-> cachedDataChecksum,
   events |-> <<>>, ret |-> "B_NO_ERROR", decr |-> 0]

\* Mutant: the lookup returns a child whatever the key.
GetChildIgnoringKey(H, p, key) ==
  IF H.children[p] # {}
  THEN CHOOSE c \in H.children[p] : \A d \in H.children[p] : c <= d
  ELSE NULL

\* Hashtable::Get(&key): the child stored under that name, or NULL.
GetChild(H, p, key) ==
  IF \E c \in H.children[p] : H.nodeName[c] = key
  THEN CHOOSE c \in H.children[p] : H.nodeName[c] = key
  ELSE NULL

HasChild(H, p, key) == GetChild(H, p, key) # NULL

\* The number of _parent links from n up to a node without a parent.
RECURSIVE AncestorCount(_, _)
AncestorCount(par, n) == IF par[n] = NULL THEN 0 ELSE 1 + AncestorCount(par, par[n])

\* n itself and the nodes its _parent chain leads to.
RECURSIVE ParentChain(_, _)
ParentChain(par, n) == IF n = NULL THEN {} ELSE {n} \cup ParentChain(par, par[n])

\* DataNode::SetParent
SetParent(H, n, p, notify) ==
  LET H1 == [H EXCEPT !.parent[n] = p]
      H2 == IF p # NULL
            THEN [H1 EXCEPT !.maxChildIDHint[p] = MaxUInt32(@, ChildIDOf(H.nodeName[n]))]
            ELSE H1
      H3 == [H2 EXCEPT !.depth[n] = IF p # NULL THEN AncestorCount(H2.parent, n) ELSE 0]
  IN IF p # NULL /\ notify
     THEN [H3 EXCEPT !.events = Append(@, NewNodeEv(n))]
     ELSE H3

\* DataNode::PutChild
PutChild(H, p, c, notifySetParent, notifyChanged) ==
  IF c = NULL THEN [H EXCEPT !.ret = "B_BAD_ARGUMENT"]
  ELSE
    LET H1  == [H EXCEPT !.hasChildren[p] = TRUE]
        H2  == SetParent(H1, c, p, notifySetParent)
        old == GetChild(H2, p, H.nodeName[c])
        H3  == [H2 EXCEPT !.children[p] = (@ \ {old}) \cup {c}]
        oldData == IF old # NULL THEN H.data[old] ELSE NULL
    IN [H3 EXCEPT !.events = IF notifyChanged THEN Append(@, NodeChangedEv(c, oldData, "")) ELSE @,
                  !.ret = "B_NO_ERROR"]

\* The position DataNode's backwards loops find: the last entry named key, or -1.
LastIndexOf(H, idx, key) ==
  LET hits == {i \in 1..Len(idx) : H.nodeName[idx[i]] = key}
  IN IF hits = {} THEN -1 ELSE (CHOOSE i \in hits : \A j \in hits : j <= i) - 1

\* DataNode::RemoveIndexEntry
RemoveIndexEntry(H, p, key, notify) ==
  LET i == IF H.hasIndex[p] THEN LastIndexOf(H, H.orderedIndex[p], key) ELSE -1
  IN IF i < 0 THEN [H EXCEPT !.ret = "B_DATA_NOT_FOUND"]
     ELSE [H EXCEPT !.orderedIndex[p] = QueueRemoveItemAt(@, i),
                    !.events = IF notify THEN Append(@, IndexChangedEv(p, "REMOVED", i, key)) ELSE @,
                    !.ret = "B_NO_ERROR"]

\* optInsertBefore / optNodeName / optMoveToBeforeThis == NULL
NoName == <<"(null)">>

\* Hashtable::GetFirstKey() of a child table (the table's iteration order is
\* not part of the node's state here; the lowest node stands for "the first").
FirstChild(H, n) == CHOOSE c \in H.children[n] : \A d \in H.children[n] : c <= d

\* The nodes reachable from n through child tables, n included.
RECURSIVE Descendants(_, _, _)
Descendants(ch, frontier, seen) ==
  IF frontier \subseteq seen THEN seen
  ELSE Descendants(ch, UNION {ch[x] : x \in frontier \ seen}, seen \cup frontier)

SubtreeOf(ch, n) == Descendants(ch, {n}, {})

\* No node below n (or n itself) is reachable from its own children: the
\* recursion of RemoveChild(recurse=true) comes to an end.
AcyclicBelow(ch, n) ==
  \A x \in SubtreeOf(ch, n) : x \notin Descendants(ch, ch[x], {})

\* DataNode::RemoveChild
RECURSIVE RemoveChild(_, _, _, _, _)
RECURSIVE RemoveAllChildren(_, _, _)
RemoveAllChildren(H, c, notify) ==
  IF H.children[c] = {} THEN H
  ELSE RemoveAllChildren(
         RemoveChild(H, c, H.nodeName[FirstChild(H, c)], notify, TRUE), c, notify)

RemoveChild(H, p, key, notify, recurse) ==
  IF ~H.hasChildren[p] THEN [H EXCEPT !.ret = "B_DATA_NOT_FOUND"]
  ELSE
    LET child == GetChild(H, p, key) IN
    IF child = NULL THEN [H EXCEPT !.ret = "B_DATA_NOT_FOUND"]
    ELSE
      LET H1 == IF recurse THEN RemoveAllChildren(H, child, notify) ELSE H
          H2 == RemoveIndexEntry(H1, p, key, notify)
          H3 == [H2 EXCEPT !.events =
                   IF notify THEN Append(@, NodeChangedEv(child, H2.data[child], "ISBEINGREMOVED")) ELSE @]
          H4 == SetParent(H3, child, NULL, notify)
          now == GetChild(H4, p, key)
      IN [H4 EXCEPT !.decr = @ + 1,
                    !.children[p] = @ \ {now},
                    !.ret = "B_NO_ERROR"]

\* Mutant: the name is taken from the counter without the HasChild() retry.
FirstFreeCounterNoRetry(H, p, k) == k

\* Mutant: the search starts past the largest child number seen so far
\* (_maxChildIDHint) instead of at _orderedCounter.
RECURSIVE FirstFreeCounterPastHint(_, _, _)
FirstFreeCounterPastHint(H, p, k) ==
  LET k0 == IF H.children[p] = {} THEN k ELSE Max(k, H.maxChildIDHint[p] + 1)
  IN IF ~HasChild(H, p, AutoName(k0)) THEN k0
     ELSE FirstFreeCounterPastHint(H, p, k0 + 1)

\* The while(true) loop of InsertOrderedChild: the first counter value, from k
\* on, whose name "I<k>" is not a child of p.
RECURSIVE FirstFreeCounter(_, _, _)
FirstFreeCounter(H, p, k) ==
  IF ~HasChild(H, p, AutoName(k)) THEN k
  ELSE FirstFreeCounter(H, p, k + 1)

\* StorageReflectSession::GetNewDataNode(name, data): a node object nobody
\* holds yet, Init()'d with the name.
NewDataNodeId(H, ids) == CHOOSE n \in ids \ H.alloc : \A m \in ids \ H.alloc : n <= m

GetNewDataNode(H, n, nm, initData) ==
  [H EXCEPT !.alloc = @ \cup {n}, !.nodeName[n] = nm, !.parent[n] = NULL,
            !.depth[n] = 0, !.maxChildIDHint[n] = 0,
            !.data[n] = initData, !.cachedDataChecksum[n] = Zero32]

\* DataNode::Reset, run when the node goes back to the node pool.
DataNodeReset(H, n) ==
  [H EXCEPT !.children[n] = {}, !.hasChildren[n] = FALSE,
            !.orderedIndex[n] = <<>>, !.hasIndex[n] = FALSE,
            !.parent[n] = NULL, !.depth[n] = 0, !.maxChildIDHint[n] = 0,
            !.data[n] = NULL, !.cachedDataChecksum[n] = Zero32]

\* Mutant: the new child always goes to the end of the index.
InsertOrderedChildAtEnd(H, p, msg, before, optNodeName, notifyChanged, dref) ==
  LET H1 == [H EXCEPT !.hasIndex[p] = TRUE]
      k  == FirstFreeCounter(H1, p, H1.orderedCounter[p])
      nm == IF optNodeName = NoName THEN AutoName(k) ELSE optNodeName
      H2 == IF optNodeName = NoName
            THEN [H1 EXCEPT !.orderedCounter[p] = k + 1]
            ELSE H1
      H3 == GetNewDataNode(H2, dref, nm, msg)
      insertIndex == Len(H3.orderedIndex[p])
      H4 == PutChild(H3, p, dref, TRUE, notifyChanged)
  IN [H4 EXCEPT !.orderedIndex[p] = QueueInsertItemAt(@, insertIndex, dref),
                !.events = Append(@, IndexChangedEv(p, "INSERTED", insertIndex, nm)),
                !.ret = "B_NO_ERROR"]

\* DataNode::InsertOrderedChild (notifyWithOnSetParent is never NULL: the
\* new node is obtained from it)
InsertOrderedChild(H, p, msg, before, optNodeName, notifyChanged, dref) ==
  LET H1 == [H EXCEPT !.hasIndex[p] = TRUE]
      k  == FirstFreeCounter(H1, p, H1.orderedCounter[p])
      nm == IF optNodeName = NoName THEN AutoName(k) ELSE optNodeName
      H2 == IF optNodeName = NoName
            THEN [H1 EXCEPT !.orderedCounter[p] = k + 1]
            ELSE H1
      H3 == GetNewDataNode(H2, dref, nm, msg)
      at == IF before # NoName THEN LastIndexOf(H3, H3.orderedIndex[p], before) ELSE -1
      insertIndex == IF at >= 0 THEN at ELSE Len(H3.orderedIndex[p])
      H4 == PutChild(H3, p, dref, TRUE, notifyChanged)
  IN [H4 EXCEPT !.orderedIndex[p] = QueueInsertItemAt(@, insertIndex, dref),
                !.events = Append(@, IndexChangedEv(p, "INSERTED", insertIndex, nm)),
                !.ret = "B_NO_ERROR"]

\* Mutant: the node of the removed entry is taken out of the child table too.
RemoveIndexEntryAtDroppingChild(H, p, removeIndex, notify) ==
  IF ~H.hasIndex[p] \/ removeIndex >= Len(H.orderedIndex[p])
  THEN [H EXCEPT !.ret = "B_DATA_NOT_FOUND"]
  ELSE LET holdKey == H.orderedIndex[p][removeIndex + 1]
       IN [H EXCEPT !.orderedIndex[p] = QueueRemoveItemAt(@, removeIndex),
                    !.children[p] = @ \ {holdKey},
                    !.events = IF notify
                               THEN Append(@, IndexChangedEv(p, "REMOVED", removeIndex, H.nodeName[holdKey]))
                               ELSE @,
                    !.ret = "B_NO_ERROR"]

\* DataNode::RemoveIndexEntryAt
RemoveIndexEntryAt(H, p, removeIndex, notify) ==
  IF ~H.hasIndex[p] \/ removeIndex >= Len(H.orderedIndex[p])
  THEN [H EXCEPT !.ret = "B_DATA_NOT_FOUND"]
  ELSE LET holdKey == H.orderedIndex[p][removeIndex + 1]
       IN [H EXCEPT !.orderedIndex[p] = QueueRemoveItemAt(@, removeIndex),
                    !.events = IF notify
                               THEN Append(@, IndexChangedEv(p, "REMOVED", removeIndex, H.nodeName[holdKey]))
                               ELSE @,
                    !.ret = "B_NO_ERROR"]

\* Mutant: B_BAD_OBJECT is returned whenever the child table is empty, not
\* only when it does not exist.
InsertIndexEntryAtBadObjectWhenEmpty(H, p, insertIndex, key) ==
  IF H.children[p] = {} THEN [H EXCEPT !.ret = "B_BAD_OBJECT"]
  ELSE
    LET childNode == GetChild(H, p, key) IN
    IF childNode = NULL THEN [H EXCEPT !.ret = "B_DATA_NOT_FOUND"]
    ELSE [H EXCEPT !.hasIndex[p] = TRUE,
                   !.orderedIndex[p] = QueueInsertItemAt(@, insertIndex, childNode),
                   !.events = Append(@, IndexChangedEv(p, "INSERTED", insertIndex, key)),
                   !.ret = "B_NO_ERROR"]

\* DataNode::InsertIndexEntryAt, for insertIndex <= GetNumItems()
\* (notifyWithOnSetParent is dereferenced, so it is never NULL)
InsertIndexEntryAt(H, p, insertIndex, key) ==
  IF ~H.hasChildren[p] THEN [H EXCEPT !.ret = "B_BAD_OBJECT"]
  ELSE
    LET childNode == GetChild(H, p, key) IN
    IF childNode = NULL THEN [H EXCEPT !.ret = "B_DATA_NOT_FOUND"]
    ELSE [H EXCEPT !.hasIndex[p] = TRUE,
                   !.orderedIndex[p] = QueueInsertItemAt(@, insertIndex, childNode),
                   !.events = Append(@, IndexChangedEv(p, "INSERTED", insertIndex, key)),
                   !.ret = "B_NO_ERROR"]

\* Mutant: the result of RemoveIndexEntry() is ignored, so a child that was
\* not indexed is inserted all the same.
ReorderChildIgnoringRemoveError(H, p, child, before, notify) ==
  IF child = NULL THEN [H EXCEPT !.ret = "B_BAD_ARGUMENT"]
  ELSE IF ~H.hasIndex[p] THEN [H EXCEPT !.ret = "B_DATA_NOT_FOUND"]
  ELSE IF before # NoName /\ before = H.nodeName[child] THEN [H EXCEPT !.ret = "B_NO_ERROR"]
  ELSE
    LET H1 == RemoveIndexEntry(H, p, H.nodeName[child], notify)
        at == IF before # NoName /\ HasChild(H1, p, before)
              THEN LastIndexOf(H1, H1.orderedIndex[p], before) ELSE -1
        targetIndex == IF at >= 0 THEN at ELSE Len(H1.orderedIndex[p])
    IN [H1 EXCEPT !.orderedIndex[p] = QueueInsertItemAt(@, targetIndex, child),
                  !.events = IF notify
                             THEN Append(@, IndexChangedEv(p, "INSERTED", targetIndex, H.nodeName[child]))
                             ELSE @,
                  !.ret = "B_NO_ERROR"]

\* Mutant: the test for `before' being the child's own name comes before
\* the test for the index.
ReorderChildOwnNameFirst(H, p, child, before, notify) ==
  IF child = NULL THEN [H EXCEPT !.ret = "B_BAD_ARGUMENT"]
  ELSE IF before # NoName /\ before = H.nodeName[child] THEN [H EXCEPT !.ret = "B_NO_ERROR"]
  ELSE IF ~H.hasIndex[p] THEN [H EXCEPT !.ret = "B_DATA_NOT_FOUND"]
  ELSE
    LET H1 == RemoveIndexEntry(H, p, H.nodeName[child], notify) IN
    IF H1.ret # "B_NO_ERROR" THEN H1
    ELSE
      LET at == IF before # NoName /\ HasChild(H1, p, before)
                THEN LastIndexOf(H1, H1.orderedIndex[p], before) ELSE -1
          targetIndex == IF at >= 0 THEN at ELSE Len(H1.orderedIndex[p])
      IN [H1 EXCEPT !.orderedIndex[p] = QueueInsertItemAt(@, targetIndex, child),
                    !.events = IF notify
                               THEN Append(@, IndexChangedEv(p, "INSERTED", targetIndex, H.nodeName[child]))
                               ELSE @,
                    !.ret = "B_NO_ERROR"]

\* DataNode::ReorderChild
ReorderChild(H, p, child, before, notify) ==
  IF child = NULL THEN [H EXCEPT !.ret = "B_BAD_ARGUMENT"]
  ELSE IF ~H.hasIndex[p] THEN [H EXCEPT !.ret = "B_DATA_NOT_FOUND"]
  ELSE IF before # NoName /\ before = H.nodeName[child] THEN [H EXCEPT !.ret = "B_NO_ERROR"]
  ELSE
    LET H1 == RemoveIndexEntry(H, p, H.nodeName[child], notify) IN
    IF H1.ret # "B_NO_ERROR" THEN H1
    ELSE
      LET at == IF before # NoName /\ HasChild(H1, p, before)
                THEN LastIndexOf(H1, H1.orderedIndex[p], before) ELSE -1
          targetIndex == IF at >= 0 THEN at ELSE Len(H1.orderedIndex[p])
      IN [H1 EXCEPT !.orderedIndex[p] = QueueInsertItemAt(@, targetIndex, child),
                    !.events = IF notify
                               THEN Append(@, IndexChangedEv(p, "INSERTED", targetIndex, H.nodeName[child]))
                               ELSE @,
                    !.ret = "B_NO_ERROR"]

\* Mutant: the notification carries the new payload as the old one.
SetDataReportingNewPayload(H, n, msg, notify, setDataFlags) ==
  LET flag == IF "ENABLESUPERCEDE" \in setDataFlags THEN "ENABLESUPERCEDE" ELSE ""
  IN [H EXCEPT !.data[n] = msg,
               !.cachedDataChecksum[n] = Zero32,
               !.events = IF notify THEN @ \o <<NodeChangedEv(n, msg, flag)>> ELSE @]

\* Mutant: SetData() leaves the cached checksum as it is.
SetDataKeepingChecksum(H, n, msg, notify, setDataFlags) ==
  LET oldData == IF "ISBEINGCREATED" \notin setDataFlags THEN H.data[n] ELSE NULL
      flag == IF "ENABLESUPERCEDE" \in setDataFlags THEN "ENABLESUPERCEDE" ELSE ""
  IN [H EXCEPT !.data[n] = msg,
               !.events = IF notify THEN @ \o <<NodeChangedEv(n, oldData, flag)>> ELSE @]

\* DataNode::SetData
SetData(H, n, msg, notify, setDataFlags) ==
  LET oldData == IF "ISBEINGCREATED" \notin setDataFlags THEN H.data[n] ELSE NULL
      flag == IF "ENABLESUPERCEDE" \in setDataFlags THEN "ENABLESUPERCEDE" ELSE ""
  IN [H EXCEPT !.data[n] = msg,
               !.cachedDataChecksum[n] = Zero32,
               !.events = IF notify THEN @ \o <<NodeChangedEv(n, oldData, flag)>> ELSE @]

\* Mutant: the index entries' names are not added.
IndexNameChecksumsSkipped(H, idx, i, ret) == ret

\* The loop over the index, from its last entry down: each entry's name
\* checksum is added to ret.
RECURSIVE IndexNameChecksums(_, _, _, _)
IndexNameChecksums(H, idx, i, ret) ==
  IF i = 0 THEN ret
  ELSE IndexNameChecksums(H, idx, i - 1, Add32(ret, NameChecksum(H.nodeName[idx[i]])))

\* DataNode::CalculateChecksum. The result is the store (the checksum caches
\* are mutable members) and the returned sum.
RECURSIVE CalculateChecksum(_, _, _)
RECURSIVE ChildChecksums(_, _, _, _)
CalculateChecksum(H, n, maxRecursionDepth) ==
  LET fresh == Add32(NameChecksum(H.nodeName[n]),
                     IF H.data[n] # NULL THEN MessageChecksum(H.data[n]) ELSE Zero32)
      local == IF H.cachedDataChecksum[n] = Zero32 THEN fresh ELSE H.cachedDataChecksum[n]
      H1 == [H EXCEPT !.cachedDataChecksum[n] = local]
  IN IF maxRecursionDepth = 0 THEN [store |-> H1, sum |-> local]
     ELSE LET ret == IF H1.hasIndex[n]
                     THEN IndexNameChecksums(H1, H1.orderedIndex[n], Len(H1.orderedIndex[n]), local)
                     ELSE local
          IN IF H1.hasChildren[n]
             THEN ChildChecksums(H1, H1.children[n], maxRecursionDepth - 1, ret)
             ELSE [store |-> H1, sum |-> ret]

\* The loop over the child table: each child's CalculateChecksum(d) is added.
ChildChecksums(H, todo, d, ret) ==
  IF todo = {} THEN [store |-> H, sum |-> ret]
  ELSE LET c == CHOOSE x \in todo : \A y \in todo : x <= y
           r == CalculateChecksum(H, c, d)
       IN ChildChecksums(r.store, todo \ {c}, d, Add32(ret, r.sum))

\* strchr(path, '/'): the position of the first '/' at or after i, 0 if none.
RECURSIVE Strchr(_, _)
Strchr(path, i) ==
  IF i > Len(path) THEN 0
  ELSE IF path[i] = "/" THEN i
  ELSE Strchr(path, i + 1)

\* CanWildcardStringMatchMultipleValues(): the key holds a wildcard character.
CanWildcardStringMatchMultipleValues(key) == \E i \in 1..Len(key) : key[i] = "*"

\* StringMatcher::Match() for patterns of literal characters and '*'.
RECURSIVE StringMatcherMatch(_, _)
StringMatcherMatch(pat, str) ==
  IF pat = <<>> THEN str = <<>>
  ELSE IF Head(pat) = "*"
       THEN StringMatcherMatch(Tail(pat), str)
            \/ (str # <<>> /\ StringMatcherMatch(pat, Tail(str)))
       ELSE str # <<>> /\ Head(str) = Head(pat) /\ StringMatcherMatch(Tail(pat), Tail(str))

\* DataNode::GetRootNode(): the end of the _parent chain.
RECURSIVE GetRootNode(_, _)
GetRootNode(H, n) == IF H.parent[n] = NULL THEN n ELSE GetRootNode(H, H.parent[n])

\* DataNode::FindFirstMatchingNode. The children are iterated from the
\* lowest node identity up.
RECURSIVE FindFirstMatchingNode(_, _, _, _)
RECURSIVE FindAmongChildren(_, _, _, _, _)
FindFirstMatchingNode(H, n, path, maxDepth) ==
  IF path = <<>> THEN n
  ELSE IF Head(path) = "/"
  THEN FindFirstMatchingNode(H, GetRootNode(H, n), Tail(path), maxDepth)
  ELSE IF ~H.hasChildren[n] \/ maxDepth = 0 THEN NULL
  ELSE LET nextSlash == Strchr(path, 1)
           childKey == IF nextSlash # 0 THEN SubSeq(path, 1, nextSlash - 1) ELSE path
           recurseArg == IF nextSlash # 0 THEN SubSeq(path, nextSlash + 1, Len(path)) ELSE <<>>
       IN IF CanWildcardStringMatchMultipleValues(childKey)
          THEN FindAmongChildren(H, H.children[n], childKey, recurseArg, maxDepth - 1)
          ELSE LET child == GetChild(H, n, childKey)
               IN IF child # NULL
                  THEN FindFirstMatchingNode(H, child, recurseArg, maxDepth - 1)
                  ELSE NULL

\* The loop over the children of a wildcard step: the first child whose name
\* matches and below which the rest of the path is found.
FindAmongChildren(H, todo, childKey, recurseArg, d) ==
  IF todo = {} THEN NULL
  ELSE LET c == CHOOSE x \in todo : \A y \in todo : x <= y
           ret == IF StringMatcherMatch(childKey, H.nodeName[c])
                  THEN FindFirstMatchingNode(H, c, recurseArg, d)
                  ELSE NULL
       IN IF ret # NULL THEN ret
          ELSE FindAmongChildren(H, todo \ {c}, childKey, recurseArg, d)

\* DataNode::GetNodePath(retPath, 0). With startDepth 0 both of its loops (the
\* one that adds up pathLen and the one that writes the names from the end
\* of the buffer) go on until they reach a node without _parent, whatever
\* _depth holds, and every name is written with a '/' in front.
RECURSIVE GetNodePathFrom(_, _, _)
GetNodePathFrom(H, node, written) ==
  IF H.parent[node] = NULL THEN written
  ELSE GetNodePathFrom(H, H.parent[node], <<"/">> \o H.nodeName[node] \o written)

GetNodePath(H, n) ==
  IF H.parent[n] # NULL THEN GetNodePathFrom(H, n, <<>>) ELSE <<"/">>

\* ------------------------------------------------------------------ actions
NodeIds == 1..Max(Max(Max(MaxNodes, MaxDeepNodes), MaxDataNodes), Max(MaxIndexNodes, MaxFlatNodes))

\* Names the callers give to nodes.
NameA == <<"a">>
NameB == <<"b">>
NameI1 == <<"I", "1">>
NameI5 == <<"I", "5">>
TreeNames == {NameA, NameB}
\* Names with a number, a sign or a blank in front, or letters after it.
NameMinus3 == <<"-", "3">>
NameIPlus4 == <<"I", "+", "4">>
NameBlank2 == <<" ", "2">>
Name1a == <<"1", "a">>
HintNames == {NameA, NameI1, NameMinus3, NameIPlus4, NameBlank2, Name1a}

OpRec(op, p, c, key, before, pos, flag, H) ==
  [op |-> op, p |-> p, c |-> c, key |-> key, before |-> before, pos |-> pos,
   flag |-> flag, ret |-> H.ret, decr |-> H.decr]

Commit(H, rec) ==
  /\ alloc' = H.alloc
  /\ nodeName' = H.nodeName
  /\ parent' = H.parent
  /\ depth' = H.depth
  /\ children' = H.children
  /\ hasChildren' = H.hasChildren
  /\ orderedIndex' = H.orderedIndex
  /\ hasIndex' = H.hasIndex
  /\ orderedCounter' = H.orderedCounter
  /\ maxChildIDHint' = H.maxChildIDHint
  /\ data' = H.data
  /\ cachedDataChecksum' = H.cachedDataChecksum
  /\ events' = H.events
  /\ last' = rec
  /\ UNCHANGED <<refVars, utilVars, bufVars>>

\* A caller obtains a node from GetNewDataNode() and keeps the reference.
NewDataNodeAct(ids, names, msgs) ==
  \E nm \in names, msg \in msgs :
    /\ ids \ alloc # {}
    /\ LET n == NewDataNodeId(Store, ids)
           H == GetNewDataNode(Store, n, nm, msg)
       IN Commit(H, OpRec("GetNewDataNode", NULL, n, nm, NoName, 0, FALSE, H))

\* p->PutChild(c, ...). A c that p's own _parent chain leads to is left out:
\* SetParent()'s depth loop would never end.
PutChildAct(parents, notifies) ==
  \E p \in parents \cap alloc, c \in alloc \cup {NULL}, notify \in notifies :
    /\ c \notin ParentChain(parent, p)
    /\ LET H == PutChild(Store, p, c, notify, notify)
       IN Commit(H, OpRec("PutChild", p, c, NoName, NoName, 0, notify, H))

\* p->PutChild(c, ...) where the caller attaches a node only below a node
\* that was created before it.
PutChildBelowAct(parents, notifies) ==
  \E p \in parents \cap alloc, c \in alloc, notify \in notifies :
    /\ p < c
    /\ LET H == PutChild(Store, p, c, notify, notify)
       IN Commit(H, OpRec("PutChild", p, c, NoName, NoName, 0, notify, H))

\* p->RemoveChild(key, notifier, recurse, &count)
RemoveChildAct(parents, names, recurses) ==
  \E p \in parents \cap alloc, key \in names, recurse \in recurses :
    /\ recurse => AcyclicBelow(children, p)
    /\ LET H == RemoveChild(Store, p, key, TRUE, recurse)
       IN Commit(H, OpRec("RemoveChild", p, GetChild(Store, p, key), key, NoName, 0, recurse, H))

\* p->InsertOrderedChild(data, before, name, notifier, notifier, NULL)
InsertOrderedChildAct(parents, ids, names, befores, maxLen, msgs) ==
  \E p \in parents \cap alloc, nm \in names, before \in befores, msg \in msgs :
    /\ ids \ alloc # {}
    /\ Len(orderedIndex[p]) < maxLen
    /\ nm = NoName => orderedCounter[p] < MaxCounterSteps
    /\ LET n == NewDataNodeId(Store, ids)
           H == InsertOrderedChild(Store, p, msg, before, nm, TRUE, n)
       IN Commit(H, OpRec("InsertOrderedChild", p, n, nm, before,
                          H.events[Len(H.events)].pos, nm = NoName, H))

\* p->InsertOrderedChild(data, before, name, notifier, notifier or NULL, NULL):
\* the caller chooses whether it wants the NodeChanged notification.
InsertOrderedChildNotifyAct(parents, ids, names, befores, maxLen, msgs, notifies) ==
  \E p \in parents \cap alloc, nm \in names, before \in befores, msg \in msgs,
     notifyChanged \in notifies :
    /\ ids \ alloc # {}
    /\ Len(orderedIndex[p]) < maxLen
    /\ nm = NoName => orderedCounter[p] < MaxCounterSteps
    /\ LET n == NewDataNodeId(Store, ids)
           H == InsertOrderedChild(Store, p, msg, before, nm, notifyChanged, n)
       IN Commit(H, [OpRec("InsertOrderedChild", p, n, nm, before,
                           H.events[Len(H.events)].pos, nm = NoName, H)
                     EXCEPT !.op = IF notifyChanged THEN "InsertOrderedChild+NodeChanged"
                                    ELSE "InsertOrderedChild-NodeChanged"])

\* The last reference to node n goes: n is in no child table and no index,
\* its own are empty, and the node pool takes it back with Reset(). The next
\* GetNewDataNode() may hand it out again.
RecycleAct(ids) ==
  \E n \in ids \cap alloc :
    /\ parent[n] = NULL
    /\ children[n] = {} /\ orderedIndex[n] = <<>>
    /\ \A m \in alloc : n \notin children[m] /\ \A i \in 1..Len(orderedIndex[m]) : orderedIndex[m][i] # n
    /\ LET H == [DataNodeReset(Store, n) EXCEPT !.alloc = @ \ {n}]
       IN Commit(H, OpRec("Reset", NULL, n, NoName, NoName, 0, FALSE, H))

\* p->RemoveIndexEntryAt(pos, notifier)
RemoveIndexEntryAtAct(parents) ==
  \E p \in parents \cap alloc, pos \in 0..MaxIndexLen :
    LET H == RemoveIndexEntryAt(Store, p, pos, TRUE)
    IN Commit(H, OpRec("RemoveIndexEntryAt", p, NULL, NoName, NoName, pos, TRUE, H))

\* p->InsertIndexEntryAt(pos, notifier, key)
InsertIndexEntryAtAct(parents, names) ==
  \E p \in parents \cap alloc, key \in names, pos \in 0..MaxIndexLen :
    /\ pos <= Len(orderedIndex[p])
    /\ Len(orderedIndex[p]) < MaxIndexLen
    /\ LET H == InsertIndexEntryAt(Store, p, pos, key)
       IN Commit(H, OpRec("InsertIndexEntryAt", p, GetChild(Store, p, key), key, NoName, pos, TRUE, H))

\* p->ReorderChild(c, before, notifier)
ReorderChildAct(parents, befores) ==
  \E p \in parents \cap alloc, c \in alloc \cup {NULL}, before \in befores :
    LET H == ReorderChild(Store, p, c, before, TRUE)
    IN Commit(H, OpRec("ReorderChild", p, c, IF c = NULL THEN NoName ELSE nodeName[c],
                       before, 0, TRUE, H))

\* ------------------------------------------------------------------- Init
\* Node 1 is the root of the tree, constructed and Init("")'d; no other node
\* object has been handed out yet.
\* The record of a SetData() or CalculateChecksum() call.
DataRec(op, n, msg, notify, setDataFlags, d, sum) ==
  [op |-> op, p |-> n, c |-> NULL, key |-> NoName, before |-> NoName, pos |-> d,
   flag |-> notify, ret |-> "B_NO_ERROR", decr |-> 0,
   msg |-> msg, setDataFlags |-> setDataFlags, sum |-> sum]

\* n->SetData(msg, notifier or NULL, flags)
SetDataAct(ids, msgs, notifies, flagSets) ==
  \E n \in ids \cap alloc, msg \in msgs, notify \in notifies, setDataFlags \in flagSets :
    Commit(SetData(Store, n, msg, notify, setDataFlags),
           DataRec("SetData", n, msg, notify, setDataFlags, 0, Zero32))

\* n->CalculateChecksum(d)
CalculateChecksumAct(ids, depths) ==
  \E n \in ids \cap alloc, d \in depths :
    LET r == CalculateChecksum(Store, n, d)
    IN Commit(r.store, DataRec("CalculateChecksum", n, NULL, FALSE, {}, d, r.sum))

\* n->FindFirstMatchingNode(path, maxDepth); the record holds the start
\* node (p), the path (key), maxDepth (pos) and the node returned (c).
FindFirstMatchingNodeAct(ids, paths, depths) ==
  \E n \in ids \cap alloc, path \in paths, maxDepth \in depths :
    Commit(Store, OpRec("FindFirstMatchingNode", n,
                        FindFirstMatchingNode(Store, n, path, maxDepth),
                        path, NoName, maxDepth, FALSE, Store))

\* n->GetNodePath(path), then start->FindFirstMatchingNode(path, maxDepth)
GetNodePathAndFindAct(ids, depths) ==
  \E n \in ids \cap alloc, start \in ids \cap alloc, maxDepth \in depths :
    /\ AcyclicBelow(children, n) /\ AcyclicBelow(children, start)
    /\ LET path == GetNodePath(Store, n)
       IN Commit(Store, [op |-> "GetNodePath", n |-> n, path |-> path, start |-> start,
                         maxDepth |-> maxDepth,
                         found |-> FindFirstMatchingNode(Store, start, path, maxDepth)])

TreeFields ==
  /\ alloc = {1}
  /\ nodeName = [n \in NodeIds |-> <<>>]
  /\ parent = [n \in NodeIds |-> NULL]
  /\ depth = [n \in NodeIds |-> 0]
  /\ children = [n \in NodeIds |-> {}]
  /\ hasChildren = [n \in NodeIds |-> FALSE]
  /\ orderedIndex = [n \in NodeIds |-> <<>>]
  /\ hasIndex = [n \in NodeIds |-> FALSE]
  /\ orderedCounter = [n \in NodeIds |-> 0]
  /\ maxChildIDHint = [n \in NodeIds |-> 0]
  /\ data = [n \in NodeIds |-> NULL]
  /\ cachedDataChecksum = [n \in NodeIds |-> Zero32]
  /\ events = <<>>
  /\ last = [op |-> "Init", p |-> NULL, c |-> NULL, key |-> NoName, before |-> NoName,
             pos |-> 0, flag |-> FALSE, ret |-> "B_NO_ERROR", decr |-> 0]

\* No MultiDataIO is in use.
IOIdle ==
  /\ childIOs = <<>>
  /\ ioPos = <<>>
  /\ absorbPartialErrors = FALSE
  /\ lastIO = <<>>

\* OnceEvery() is not in use.
TimeIdle ==
  /\ clock = 0
  /\ lastTime = 0
  /\ lastCall = <<>>

\* No ByteBuffer is in use.
BufIdle ==
  /\ numValidBytes = Zero32
  /\ numAllocatedBytes = Zero32
  /\ lastBuf = <<>>

TreeInit ==
  /\ IOIdle
  /\ TimeIdle
  /\ BufIdle
  /\ TreeFields

RefIdle ==
  /\ hPtr = <<>>
  /\ hBit = <<>>
  /\ hLive = <<>>
  /\ refCount = <<>>
  /\ objState = <<>>
  /\ releases = <<>>
  /\ manager = <<>>
  /\ owner = <<>>
  /\ hPc = <<>>
  /\ lastRef = <<>>

Init == TreeInit /\ RefIdle

\* The general tree: any node may be given to any other as a child.
TreeIds == 1..MaxNodes

Next ==
  \/ NewDataNodeAct(TreeIds, TreeNames, {NULL})
  \/ PutChildAct(TreeIds, BOOLEAN)
  \/ RemoveChildAct(TreeIds, TreeNames, BOOLEAN)

Spec == Init /\ [][Next]_vars

\* One parent (node 1) with an ordered index, and every index operation.
\* Every child carries the same Message (1).
IndexIds == 1..MaxIndexNodes
Root == {1}

IndexNext ==
  \/ NewDataNodeAct(IndexIds, TreeNames, {1})
  \/ PutChildAct(Root, BOOLEAN)
  \/ RemoveChildAct(Root, TreeNames, BOOLEAN)
  \/ InsertOrderedChildAct(Root, IndexIds, TreeNames, TreeNames \cup {NoName}, MaxIndexLen, {1})
  \/ RemoveIndexEntryAtAct(Root)
  \/ InsertIndexEntryAtAct(Root, TreeNames)
  \/ ReorderChildAct(Root, TreeNames \cup {NoName})

IndexSpec == Init /\ [][IndexNext]_vars

\* One parent (node 1) whose index is built by InsertOrderedChild, with and
\* without a name, a place and a NodeChanged notification, and by
\* InsertIndexEntryAt, which can put a child into the index twice.
OrderNext ==
  \/ PutChildAct(Root, {FALSE})
  \/ NewDataNodeAct(IndexIds, TreeNames, {NULL})
  \/ InsertOrderedChildNotifyAct(Root, IndexIds, TreeNames \cup {NoName}, TreeNames \cup {NoName},
                                 MaxOrderLen, {NULL}, BOOLEAN)
  \/ InsertIndexEntryAtAct(Root, TreeNames)

OrderSpec == Init /\ [][OrderNext]_vars

\* One parent (node 1) whose index is built by InsertOrderedChild, also with
\* a name a child has already, and reordered.
PermuteNext ==
  \/ NewDataNodeAct(IndexIds, {NameA}, {1})
  \/ InsertOrderedChildAct(Root, IndexIds, TreeNames, {NoName}, MaxIndexLen, {1})
  \/ ReorderChildAct(Root, TreeNames \cup {NoName})

PermuteSpec == Init /\ [][PermuteNext]_vars

\* One parent (node 1) whose children get their names from InsertOrderedChild,
\* next to a child the caller names "I5".
FlatIds == 1..MaxFlatNodes

FlatNext ==
  \/ NewDataNodeAct(FlatIds, {NameI1, NameI5}, {NULL})
  \/ PutChildAct(Root, {TRUE})
  \/ RemoveChildAct(Root, {NameI1}, {TRUE})
  \/ InsertOrderedChildAct(Root, FlatIds, {NoName}, {NoName}, MaxFlatIndexLen, {NULL})

FlatSpec == Init /\ [][FlatNext]_vars

\* Nodes that go back to the node pool and are handed out again; the
\* children of node 1 get their names from InsertOrderedChild.
ReuseIds == 1..MaxReuseNodes

ReuseNext ==
  \/ NewDataNodeAct(ReuseIds, {NameA}, {NULL})
  \/ InsertOrderedChildAct(Root, ReuseIds, {NoName}, {NoName}, MaxIndexLen, {NULL})
  \/ RemoveChildAct(Root, {AutoName(0), AutoName(1)}, {TRUE})
  \/ RecycleAct(ReuseIds)

ReuseSpec == Init /\ [][ReuseNext]_vars

\* One parent (node 1) whose children carry names with and without numbers.
HintIds == 1..MaxHintNodes

HintNext ==
  \/ NewDataNodeAct(HintIds, HintNames, {NULL})
  \/ PutChildAct(Root, {FALSE})
  \/ RemoveChildAct(Root, HintNames, {FALSE})
  \/ InsertOrderedChildAct(Root, HintIds, {NoName}, {NoName}, MaxIndexLen, {NULL})

HintSpec == Init /\ [][HintNext]_vars

\* Four nodes, so that a node can be attached below a node that is itself
\* attached, and whole subtrees removed.
DeepIds == 1..MaxDeepNodes

DeepNext ==
  \/ NewDataNodeAct(DeepIds, TreeNames, {NULL})
  \/ PutChildBelowAct(DeepIds, {TRUE})
  \/ RemoveChildAct(DeepIds, TreeNames, BOOLEAN)

DeepSpec == Init /\ [][DeepNext]_vars

\* Nodes with payloads: SetData() with and without a notifier, under every
\* flag, on nodes whose checksum is or is not cached.
PayloadIds == 1..MaxPayloadNodes
Messages == 1..MaxMessages
SetDataFlagSets == {{}, {"ISBEINGCREATED"}, {"ENABLESUPERCEDE"}}

DataNext ==
  \/ NewDataNodeAct(PayloadIds, {NameB}, {NULL})
  \/ PutChildBelowAct(PayloadIds, {TRUE})
  \/ SetDataAct(PayloadIds, Messages \cup {NULL}, BOOLEAN, SetDataFlagSets)
  \/ CalculateChecksumAct(PayloadIds, {0})

DataSpec == Init /\ [][DataNext]_vars

\* The checksum caches under PutChild, RemoveChild, SetData and
\* CalculateChecksum of every depth.
CacheNext ==
  \/ NewDataNodeAct(PayloadIds, TreeNames, {NULL})
  \/ PutChildBelowAct(PayloadIds, {FALSE})
  \/ RemoveChildAct(Root, TreeNames, {TRUE})
  \/ SetDataAct(PayloadIds, Messages \cup {NULL}, {FALSE}, {{}})
  \/ CalculateChecksumAct(PayloadIds, 0..MaxRecursionDepth)

CacheSpec == Init /\ [][CacheNext]_vars

\* Checksums of whole trees: nodes with a payload attached anywhere, nodes
\* without one inserted into the root's index.
DataIds == 1..MaxDataNodes

ChecksumNext ==
  \/ NewDataNodeAct(DataIds, {NameA}, {1})
  \/ PutChildBelowAct(DataIds, {FALSE})
  \/ InsertOrderedChildAct(Root, DataIds, TreeNames, {NoName}, MaxDataIndexLen, {NULL})
  \/ CalculateChecksumAct(DataIds, 0..MaxRecursionDepth)

ChecksumSpec == Init /\ [][ChecksumNext]_vars

\* Path searches from every node of a tree, with every path of literal
\* characters, '/' and '*' up to MaxPathLen.
PathIds == 1..MaxPathNodes
PathChars == {"a", "/", "*"}
Paths == UNION {[1..k -> PathChars] : k \in 0..MaxPathLen}

PathNext ==
  \/ NewDataNodeAct(PathIds, TreeNames, {NULL})
  \/ PutChildBelowAct(PathIds, {FALSE})
  \/ FindFirstMatchingNodeAct(PathIds, Paths, 0..MaxDepthArg)

PathSpec == Init /\ [][PathNext]_vars

\* Paths of nodes handed back to the search; a node may have the empty name.
NameEmpty == <<>>

RoundTripNext ==
  \/ NewDataNodeAct(PathIds, {NameA, NameB, NameEmpty}, {NULL})
  \/ PutChildBelowAct(PathIds, {FALSE})
  \/ GetNodePathAndFindAct(PathIds, 0..MaxDepthArg)

RoundTripSpec == Init /\ [][RoundTripNext]_vars

\* ------------------------------------------------- reference-count handles
Handles == 1..MaxHandles
Objects == 1..MaxObjects

\* RefCountable::GetManager() != NULL: odd objects come from an ObjectPool,
\* even ones from new.
FromPool(x) == x % 2 = 1

\* RefCountable::GetManager() != NULL
GetManager(x) == manager[x]

\* The handles and the objects, as the operations below take and return them.
RefStore ==
  [ptr |-> hPtr, bit |-> hBit, live |-> hLive,
   refCount |-> refCount, objState |-> objState, releases |-> releases,
   manager |-> manager, owner |-> owner, pc |-> hPc]

RECURSIVE UnrefItem(_, _)
RECURSIVE DestroyMembers(_, _)

\* The live handles that are data members of object x.
Members(R, x) == {g \in DOMAIN R.owner : R.owner[g] = x /\ R.live[g]}

\* m->RecycleObject(item) or delete item, the two ends of UnrefItem(). What
\* an ObjectPool does with the members of a recycled object is not part of
\* RefCount.h: they are left as they are.
ReleaseItem(R, x) ==
  LET R1 == [R EXCEPT !.objState[x] = IF R.manager[x] THEN "recycled" ELSE "deleted",
                      !.releases[x] = @ + 1]
  IN IF R.manager[x] THEN R1 ELSE DestroyMembers(R1, x)

\* `delete item' runs the object's destructor, which runs ~ConstRef() on
\* every handle the object has as a data member.
DestroyMembers(R, x) ==
  IF Members(R, x) = {} THEN R
  ELSE LET g == CHOOSE m \in Members(R, x) : \A k \in Members(R, x) : m <= k
       IN DestroyMembers([UnrefItem(R, g) EXCEPT !.live[g] = FALSE, !.ptr[g] = NULL,
                                                 !.bit[g] = TRUE, !.owner[g] = NULL], x)

\* ConstRef::RefItem
RefItem(R, h) ==
  LET item == IF R.bit[h] THEN R.ptr[h] ELSE NULL
  IN IF item # NULL THEN [R EXCEPT !.refCount[item] = @ + 1] ELSE R

\* Mutant: the do-refcount bit is not looked at before the decrement.
UnrefItemIgnoringBit(R, h) ==
  LET item == R.ptr[h]
  IN IF item = NULL THEN R
     ELSE LET R1 == [R EXCEPT !.refCount[item] = @ - 1]
              R2 == IF R1.refCount[item] = 0 THEN ReleaseItem(R1, item) ELSE R1
          IN [R2 EXCEPT !.ptr[h] = NULL]

\* Mutant: the object is released on every decrement, not on the one that
\* reaches zero.
UnrefItemReleasingEarly(R, h) ==
  LET item == R.ptr[h]
  IN IF item = NULL THEN R
     ELSE LET isRefCounting == R.bit[h]
              R1 == IF isRefCounting THEN [R EXCEPT !.refCount[item] = @ - 1] ELSE R
              R2 == IF isRefCounting THEN ReleaseItem(R1, item) ELSE R1
          IN [R2 EXCEPT !.ptr[h] = NULL]

\* ConstRef::UnrefItem; DecrementRefCount() returns true iff the new value
\* is zero.
UnrefItem(R, h) ==
  LET item == R.ptr[h]
  IN IF item = NULL THEN R
     ELSE LET isRefCounting == R.bit[h]
              R1 == IF isRefCounting THEN [R EXCEPT !.refCount[item] = @ - 1] ELSE R
              R2 == IF isRefCounting /\ R1.refCount[item] = 0
                    THEN ReleaseItem(R1, item) ELSE R1
          IN [R2 EXCEPT !.ptr[h] = NULL]

\* ConstRef::SetRef
SetRef(R, h, item, doRefCount) ==
  IF item = R.ptr[h]
  THEN IF doRefCount # R.bit[h]
       THEN IF doRefCount
            THEN RefItem([R EXCEPT !.bit[h] = TRUE], h)
            ELSE [UnrefItem(R, h) EXCEPT !.bit[h] = FALSE]
       ELSE R
  ELSE RefItem([UnrefItem(R, h) EXCEPT !.ptr[h] = item, !.bit[h] = doRefCount], h)

\* Mutant: the held object is released when its count reaches zero.
NeutralizeReleasing(R, h) == UnrefItem(R, h)

\* ConstRef::Neutralize
Neutralize(R, h) ==
  LET item == IF R.bit[h] THEN R.ptr[h] ELSE NULL
      R1 == IF item # NULL THEN [R EXCEPT !.refCount[item] = @ - 1] ELSE R
  IN [R1 EXCEPT !.ptr[h] = NULL]

\* ConstRef::SwapContents
SwapContents(R, h, g) ==
  [R EXCEPT !.ptr[h] = R.ptr[g], !.ptr[g] = R.ptr[h],
            !.bit[h] = R.bit[g], !.bit[g] = R.bit[h]]

\* A handle object comes into existence with _item(item, doRefCount).
Construct(R, h, item, doRefCount) ==
  [R EXCEPT !.live[h] = TRUE, !.ptr[h] = item, !.bit[h] = doRefCount]

\* ~ConstRef; the slot of a destroyed handle is left as a new one starts.
Destroy(R, h) ==
  [UnrefItem(R, h) EXCEPT !.live[h] = FALSE, !.ptr[h] = NULL, !.bit[h] = TRUE,
                          !.owner[h] = NULL]

RefRec(op, h, g, item) == [op |-> op, h |-> h]

\* The record of a SetRef() call: the handle and both arguments.
SetRefRec(h, item, doRefCount) ==
  [op |-> "SetRef", h |-> h, item |-> item, doRefCount |-> doRefCount]

\* The record of a Neutralize() call: the handle and what it held.
NeutralizeRec(h) ==
  [op |-> "Neutralize", h |-> h, item |-> hPtr[h], doRefCount |-> hBit[h]]

RefCommit(R, rec) ==
  /\ hPtr' = R.ptr
  /\ hBit' = R.bit
  /\ hLive' = R.live
  /\ refCount' = R.refCount
  /\ objState' = R.objState
  /\ releases' = R.releases
  /\ manager' = R.manager
  /\ owner' = R.owner
  /\ hPc' = R.pc
  /\ lastRef' = rec
  /\ UNCHANGED <<treeVars, utilVars, bufVars>>

\* A caller may hand an object to a counting handle only while the object
\* exists: a pointer to a recycled or deleted object must not be counted.
MayHold(item, doRefCount) ==
  item # NULL /\ doRefCount => objState[item] = "live"

\* ConstRef()
DefaultCtorAct ==
  \E h \in Handles :
    /\ ~hLive[h]
    /\ RefCommit(Construct(RefStore, h, NULL, TRUE), RefRec("ConstRef", h, NULL, NULL))

\* explicit ConstRef(const Item *), and DummyConstRef(const Item *) which
\* goes through the private ConstRef(item, false)
PointerCtorAct ==
  \E h \in Handles, item \in Objects \cup {NULL}, doRefCount \in BOOLEAN :
    /\ ~hLive[h]
    /\ item # NULL => objState[item] = "live"
    /\ RefCommit(RefItem(Construct(RefStore, h, item, doRefCount), h),
                 RefRec(IF doRefCount THEN "ConstRef(item)" ELSE "DummyConstRef(item)",
                        h, NULL, item))

\* ConstRef(const ConstRef &)
CopyCtorAct ==
  \E h \in Handles, g \in Handles :
    /\ ~hLive[h] /\ hLive[g]
    /\ MayHold(hPtr[g], hBit[g])
    /\ RefCommit(SetRef(Construct(RefStore, h, NULL, TRUE), h, hPtr[g], hBit[g]),
                 RefRec("CopyCtor", h, g, hPtr[g]))

\* template<typename T> ConstRef(const ConstRef<T> &)
UpcastCtorAct ==
  \E h \in Handles, g \in Handles :
    /\ ~hLive[h] /\ hLive[g]
    /\ MayHold(hPtr[g], hBit[g])
    /\ RefCommit(RefItem(Construct(RefStore, h, hPtr[g], hBit[g]), h),
                 RefRec("UpcastCtor", h, g, hPtr[g]))

\* ConstRef(ConstRef &&): _item is default-constructed and swapped with
\* rhs's; the bool of a default-constructed PointerAndBool is either value.
MoveCtorAct ==
  \E h \in Handles, g \in Handles, b \in BOOLEAN :
    /\ ~hLive[h] /\ hLive[g]
    /\ RefCommit(SwapContents(Construct(RefStore, h, NULL, b), h, g),
                 RefRec("MoveCtor", h, g, hPtr[g]))

\* operator=(const ConstRef &)
AssignAct ==
  \E h \in Handles, g \in Handles :
    /\ hLive[h] /\ hLive[g]
    /\ MayHold(hPtr[g], hBit[g])
    /\ RefCommit(SetRef(RefStore, h, hPtr[g], hBit[g]), RefRec("Assign", h, g, hPtr[g]))

\* operator=(ConstRef &&) and SwapContents()
SwapContentsAct ==
  \E h \in Handles, g \in Handles, op \in {"MoveAssign", "SwapContents"} :
    /\ hLive[h] /\ hLive[g]
    /\ RefCommit(SwapContents(RefStore, h, g), RefRec(op, h, g, hPtr[g]))

\* SetRef(item, doRefCount)
SetRefAct ==
  \E h \in Handles, item \in Objects \cup {NULL}, doRefCount \in BOOLEAN :
    /\ hLive[h]
    /\ item # NULL => objState[item] = "live"
    /\ RefCommit(SetRef(RefStore, h, item, doRefCount), SetRefRec(h, item, doRefCount))

\* Reset()
ResetAct ==
  \E h \in Handles :
    /\ hLive[h]
    /\ RefCommit(UnrefItem(RefStore, h), RefRec("Reset", h, NULL, NULL))

\* Neutralize()
NeutralizeAct ==
  \E h \in Handles :
    /\ hLive[h]
    /\ RefCommit(Neutralize(RefStore, h), NeutralizeRec(h))

\* CastAwayConstFromRef(), AddConstToRef() and GetRefCountableRef(): a new
\* handle `ret' is default-constructed, SetRef() from the argument, and
\* returned.
ConvertAct ==
  \E h \in Handles, g \in Handles,
     op \in {"CastAwayConstFromRef", "AddConstToRef", "GetRefCountableRef"} :
    /\ ~hLive[h] /\ hLive[g]
    /\ MayHold(hPtr[g], hBit[g])
    /\ RefCommit(SetRef(Construct(RefStore, h, NULL, TRUE), h, hPtr[g], hBit[g]),
                 RefRec(op, h, g, hPtr[g]))

\* ~ConstRef()
DestroyAct ==
  \E h \in Handles :
    /\ hLive[h]
    /\ RefCommit(Destroy(RefStore, h), RefRec("Destroy", h, NULL, NULL))

\* No handle exists; every object exists and nothing counts it yet.
RefInit ==
  /\ TreeInit
  /\ hPtr = [h \in Handles |-> NULL]
  /\ hBit = [h \in Handles |-> TRUE]
  /\ hLive = [h \in Handles |-> FALSE]
  /\ owner = [h \in Handles |-> NULL]
  /\ refCount = [x \in Objects |-> 0]
  /\ objState = [x \in Objects |-> "live"]
  /\ releases = [x \in Objects |-> 0]
  /\ manager = [x \in Objects |-> FromPool(x)]
  /\ hPc = [h \in Handles |-> "idle"]
  /\ lastRef = RefRec("Init", NULL, NULL, NULL)

RefNext ==
  \/ DefaultCtorAct
  \/ PointerCtorAct
  \/ CopyCtorAct
  \/ UpcastCtorAct
  \/ MoveCtorAct
  \/ AssignAct
  \/ SwapContentsAct
  \/ SetRefAct
  \/ ResetAct
  \/ NeutralizeAct
  \/ ConvertAct
  \/ DestroyAct

RefSpec == RefInit /\ [][RefNext]_vars

\* ------------------------------------------------- objects that own handles
\* An object x has a handle g as a data member (a list node's `next'): g is
\* constructed with the object and destroyed by its destructor.
MemberCtorAct ==
  \E g \in Handles, x \in Objects, item \in Objects \cup {NULL} :
    /\ ~hLive[g]
    /\ objState[x] = "live" /\ item # x
    /\ item # NULL => objState[item] = "live"
    /\ RefCommit(RefItem([Construct(RefStore, g, item, TRUE) EXCEPT !.owner[g] = x], g),
                 [op |-> "MemberCtor", h |-> g, item |-> item, doRefCount |-> TRUE])

\* h = g, operator=(const ConstRef &): rhs.GetItemPointer() and
\* rhs.IsRefCounting() are read first and handed to SetRef().
OperatorAssignAct ==
  \E h \in Handles, g \in Handles :
    /\ hLive[h] /\ hLive[g]
    /\ MayHold(hPtr[g], hBit[g])
    /\ RefCommit(SetRef(RefStore, h, hPtr[g], hBit[g]),
                 [op |-> "Assign", h |-> h, item |-> hPtr[g], doRefCount |-> hBit[g]])

\* Every object comes from new, so that releasing it runs its destructor.
OwnInit ==
  /\ TreeInit
  /\ hPtr = [h \in Handles |-> NULL]
  /\ hBit = [h \in Handles |-> TRUE]
  /\ hLive = [h \in Handles |-> FALSE]
  /\ owner = [h \in Handles |-> NULL]
  /\ refCount = [x \in Objects |-> 0]
  /\ objState = [x \in Objects |-> "live"]
  /\ releases = [x \in Objects |-> 0]
  /\ manager = [x \in Objects |-> FALSE]
  /\ hPc = [h \in Handles |-> "idle"]
  /\ lastRef = RefRec("Init", NULL, NULL, NULL)

OwnNext ==
  \/ PointerCtorAct
  \/ MemberCtorAct
  \/ OperatorAssignAct
  \/ SetRefAct
  \/ ResetAct

OwnSpec == OwnInit /\ [][OwnNext]_vars

\* ------------------------------------------- handles used by several threads
\* Mutant: the decrement reports zero one step early.
DecrementRefCountEarly(count) == [count |-> count - 1, zero |-> count - 1 <= 1]

\* RefCountable::DecrementRefCount(): the atomic decrement; its result says
\* whether the new value is zero.
DecrementRefCount(count) == [count |-> count - 1, zero |-> count - 1 = 0]

\* ConstRef::UnrefItem up to the decrement: the handle's own fields are read
\* and the object's count is decremented in one atomic step.
UnrefItemDecrement(R, h) ==
  LET item == R.ptr[h]
  IN IF item = NULL THEN R
     ELSE IF R.bit[h]
     THEN LET d == DecrementRefCount(R.refCount[item])
          IN [R EXCEPT !.refCount[item] = d.count,
                       !.pc[h] = IF d.zero THEN "release" ELSE "clear"]
     ELSE [R EXCEPT !.pc[h] = "clear"]

\* ConstRef::UnrefItem after a decrement that returned true: RecycleObject()
\* or delete.
UnrefItemRelease(R, h) == [ReleaseItem(R, R.ptr[h]) EXCEPT !.pc[h] = "clear"]

\* ConstRef::UnrefItem, its last statement: _item.SetPointer(NULL).
UnrefItemClear(R, h) == [R EXCEPT !.ptr[h] = NULL, !.pc[h] = "idle"]

Threads == 1..MaxThreads

\* A thread copies a handle it owns into a new handle, which another thread
\* will own: ConstRef(const ConstRef &). The increment is its one access to
\* the shared object.
ThreadCopyAct(hs) ==
  \E h \in hs, g \in hs :
    /\ ~hLive[h] /\ hLive[g] /\ hPc[g] = "idle"
    /\ MayHold(hPtr[g], hBit[g])
    /\ RefCommit(SetRef(Construct(RefStore, h, NULL, TRUE), h, hPtr[g], hBit[g]),
                 RefRec("CopyCtor", h, g, hPtr[g]))

\* A thread starts ~ConstRef() on its handle: UnrefItem() up to the decrement.
ThreadUnrefAct(hs) ==
  \E h \in hs :
    /\ hLive[h] /\ hPc[h] = "idle" /\ hPtr[h] # NULL
    /\ RefCommit(UnrefItemDecrement(RefStore, h), RefRec("UnrefItem", h, NULL, NULL))

\* The thread whose decrement returned true recycles or deletes the object.
ThreadReleaseAct(hs) ==
  \E h \in hs :
    /\ hPc[h] = "release"
    /\ RefCommit(UnrefItemRelease(RefStore, h), RefRec("Release", h, NULL, NULL))

\* The thread clears its handle's pointer; the destructor is over.
ThreadClearAct(hs) ==
  \E h \in hs :
    /\ hPc[h] = "clear"
    /\ RefCommit([UnrefItemClear(RefStore, h) EXCEPT !.live[h] = FALSE],
                 RefRec("Clear", h, NULL, NULL))

\* One thread holds the only strong handle to a new object.
ThreadInit ==
  /\ TreeInit
  /\ \E x \in Objects :
       /\ hPtr = [h \in Threads |-> IF h = 1 THEN x ELSE NULL]
       /\ refCount = [y \in Objects |-> IF y = x THEN 1 ELSE 0]
  /\ hBit = [h \in Threads |-> TRUE]
  /\ hLive = [h \in Threads |-> h = 1]
  /\ owner = [h \in Threads |-> NULL]
  /\ objState = [x \in Objects |-> "live"]
  /\ releases = [x \in Objects |-> 0]
  /\ manager = [x \in Objects |-> FromPool(x)]
  /\ hPc = [h \in Threads |-> "idle"]
  /\ lastRef = RefRec("Init", NULL, NULL, NULL)

ThreadNext ==
  \/ ThreadCopyAct(Threads)
  \/ ThreadUnrefAct(Threads)
  \/ ThreadReleaseAct(Threads)
  \/ ThreadClearAct(Threads)

ThreadSpec == ThreadInit /\ [][ThreadNext]_vars

\* ------------------------------------------------ SetFromRefCountableRef
\* Handles of type ConstRef<Item>; the other handles are ConstRefCountableRef.
ItemHandles == {h \in Handles : h % 2 = 1}

\* dynamic_cast<const Item *>(x): the objects that are Items pass, the other
\* RefCountables give NULL.
IsItem(x) == 2 * x <= MaxObjects + 1
DynamicCast(x) == IF x # NULL /\ IsItem(x) THEN x ELSE NULL

\* What a handle of its type may point to.
WellTyped(h, item) == h \in ItemHandles /\ item # NULL => IsItem(item)

\* ConstRef::SetFromRefCountableRef; the store and the status returned.
SetFromRefCountableRef(R, h, g) ==
  LET refCountableItem == R.ptr[g]
  IN IF refCountableItem # NULL
     THEN LET typedItem == DynamicCast(refCountableItem)
          IN IF typedItem = NULL
             THEN [store |-> R, ret |-> "B_BAD_ARGUMENT"]
             ELSE [store |-> SetRef(R, h, typedItem, R.bit[g]), ret |-> "B_NO_ERROR"]
     ELSE [store |-> UnrefItem(R, h), ret |-> "B_NO_ERROR"]

\* The record of a call that takes its value from handle g.
FromRec(op, h, g, ret) == [op |-> op, h |-> h, g |-> g, ret |-> ret]

\* explicit ConstRef(const Item *) and DummyConstRef(const Item *), on a
\* handle of either type
TypedPointerCtorAct ==
  \E h \in Handles, item \in Objects \cup {NULL}, doRefCount \in BOOLEAN :
    /\ ~hLive[h]
    /\ WellTyped(h, item)
    /\ item # NULL => objState[item] = "live"
    /\ RefCommit(RefItem(Construct(RefStore, h, item, doRefCount), h),
                 RefRec(IF doRefCount THEN "ConstRef(item)" ELSE "DummyConstRef(item)",
                        h, NULL, item))

\* h.SetFromRefCountableRef(g)
SetFromRefCountableRefAct ==
  \E h \in ItemHandles, g \in Handles :
    /\ hLive[h] /\ hLive[g]
    /\ hPtr[g] # NULL => objState[hPtr[g]] = "live"
    /\ LET res == SetFromRefCountableRef(RefStore, h, g)
       IN RefCommit(res.store, FromRec("SetFromRefCountableRef", h, g, res.ret))

\* ConstRef(const ConstRefCountableRef & ref, bool junk)
DowncastCtorAct ==
  \E h \in ItemHandles, g \in Handles :
    /\ ~hLive[h] /\ hLive[g]
    /\ hPtr[g] # NULL => objState[hPtr[g]] = "live"
    /\ LET res == SetFromRefCountableRef(Construct(RefStore, h, NULL, TRUE), h, g)
       IN RefCommit(res.store, FromRec("DowncastCtor", h, g, res.ret))

CastNext ==
  \/ TypedPointerCtorAct
  \/ SetFromRefCountableRefAct
  \/ DowncastCtorAct
  \/ DestroyAct

CastSpec == RefInit /\ [][CastNext]_vars

\* --------------------------------------------- Clone and EnsureRefIsPrivate
\* Each sharer thread owns one handle (slot h) and the local Ref<Item>
\* copyRef of its EnsureRefIsPrivate() or Clone() call (slot CopyRefOf(h)).
Sharers == 1..MaxSharers
CopyRefOf(h) == h + MaxSharers
CloneObjects == 1..MaxCloneObjects

\* Mutant: the reference count is not looked at.
IsRefPrivateIgnoringCount(R, h) == R.ptr[h] = NULL \/ R.bit[h]

\* ConstRef::IsRefPrivate: GetRefCount() is one load of the counter.
IsRefPrivate(R, h) ==
  LET item == R.ptr[h]
  IN item = NULL \/ (R.bit[h] /\ R.refCount[item] = 1)

\* Mutant: operator= copies the source's reference count.
AssignRefCountableWithCount(R, dst, src) == [R EXCEPT !.refCount[dst] = R.refCount[src]]

\* ObjectPool::ObtainObjectGeneric gives an object of the pool, whose manager
\* is the pool and whose count is zero.
ObtainObjectGeneric(R, newItem) ==
  [R EXCEPT !.objState[newItem] = "live", !.manager[newItem] = TRUE,
            !.refCount[newItem] = 0]

\* RefCountable::operator=: a no-op.
AssignRefCountable(R, dst, src) == R

\* RefCountable(const RefCountable &): _refCount() and _manager(NULL).
CopyConstructRefCountable(R, dst, src) ==
  [R EXCEPT !.refCount[dst] = 0, !.manager[dst] = FALSE, !.objState[dst] = "live"]

\* ConstRef::Clone on a handle that holds an item: the copy newItem comes
\* from the item's manager and is assigned from the item, or is constructed
\* from it by CloneObject(); it is returned in the counting handle ret.
Clone(R, h, newItem, ret) ==
  LET item == R.ptr[h]
      R1 == IF R.manager[item]
            THEN AssignRefCountable(ObtainObjectGeneric(R, newItem), newItem, item)
            ELSE CopyConstructRefCountable(R, newItem, item)
  IN RefItem(Construct(R1, ret, newItem, TRUE), ret)

\* The record of a step that ends a call: the handle and the status returned.
RetRec(op, h, ret) == [op |-> op, h |-> h, ret |-> ret]

\* A handle is between operations; "private" is "idle" after an
\* EnsureRefIsPrivate() that returned B_NO_ERROR, until the thread does
\* anything else with the handle.
Between(h) == hPc[h] \in {"idle", "private"}

\* The object an allocation gives: the first one not allocated yet (which
\* address the allocator picks makes no difference to any handle).
FreeObjects ==
  {y \in CloneObjects : objState[y] = "free" /\
                        \A z \in CloneObjects : objState[z] = "free" => y <= z}

\* The object of a non-counting handle has to outlive the handle's use of it:
\* the last counted reference to x is not dropped while a non-counting
\* handle is about to copy x.
OutlivesUse(h) ==
  hBit[h] /\ refCount[hPtr[h]] = 1 =>
    ~\E g \in Sharers : hLive[g] /\ ~hBit[g] /\ hPtr[g] = hPtr[h] /\ hPc[g] = "clone"

\* The thread of g gives a copy of its handle to the thread of h.
SharerCopyAct ==
  \E h \in Sharers, g \in Sharers :
    /\ ~hLive[h] /\ hLive[g] /\ Between(g)
    /\ MayHold(hPtr[g], hBit[g])
    /\ RefCommit([SetRef(Construct(RefStore, h, NULL, TRUE), h, hPtr[g], hBit[g])
                    EXCEPT !.pc[g] = "idle"],
                 RefRec("CopyCtor", h, g, hPtr[g]))

\* The thread of g gives the thread of h a DummyConstRef to the object its
\* handle holds (or to NULL).
SharerDummyAct ==
  \E h \in Sharers, g \in Sharers :
    /\ ~hLive[h] /\ hLive[g] /\ Between(g)
    /\ hPtr[g] # NULL => objState[hPtr[g]] = "live"
    /\ RefCommit([RefItem(Construct(RefStore, h, hPtr[g], FALSE), h)
                    EXCEPT !.pc[g] = "idle"],
                 RefRec("DummyConstRef(item)", h, g, hPtr[g]))

\* ~ConstRef() on a sharer's handle starts.
SharerUnrefAct ==
  \E h \in Sharers :
    /\ hLive[h] /\ Between(h)
    /\ IF hPtr[h] = NULL
       THEN RefCommit([Destroy(RefStore, h) EXCEPT !.pc[h] = "idle"],
                      RefRec("Destroy", h, NULL, NULL))
       ELSE /\ OutlivesUse(h)
            /\ RefCommit(UnrefItemDecrement(RefStore, h), RefRec("UnrefItem", h, NULL, NULL))

\* The record of a step on the objects themselves.
ValueRec(op, dst, src) == [op |-> op, h |-> NULL, dst |-> dst, src |-> src]

\* A thread copy-constructs an object from the one its handle holds.
CopyConstructAct ==
  \E h \in Sharers, dst \in FreeObjects :
    /\ hLive[h] /\ Between(h) /\ hPtr[h] # NULL
    /\ objState[hPtr[h]] = "live"
    /\ RefCommit([CopyConstructRefCountable(RefStore, dst, hPtr[h]) EXCEPT !.pc[h] = "idle"],
                 ValueRec("CopyConstruct", dst, hPtr[h]))

\* A thread assigns the value of the object its handle holds to another
\* object, or the other way round.
AssignValueAct ==
  \E h \in Sharers, y \in CloneObjects, toHeld \in BOOLEAN :
    /\ hLive[h] /\ Between(h) /\ hPtr[h] # NULL
    /\ objState[hPtr[h]] = "live" /\ objState[y] = "live"
    /\ LET dst == IF toHeld THEN hPtr[h] ELSE y
           src == IF toHeld THEN y ELSE hPtr[h]
       IN RefCommit([AssignRefCountable(RefStore, dst, src) EXCEPT !.pc[h] = "idle"],
                    ValueRec("AssignValue", dst, src))

\* EnsureRefIsPrivate(): the IsRefPrivate() test.
EnsureTestAct ==
  \E h \in Sharers :
    /\ hLive[h] /\ Between(h)
    /\ hPtr[h] # NULL => objState[hPtr[h]] = "live"
    /\ IF IsRefPrivate(RefStore, h)
       THEN RefCommit([RefStore EXCEPT !.pc[h] = "private"],
                      RetRec("EnsureRefIsPrivate", h, "B_NO_ERROR"))
       ELSE RefCommit([RefStore EXCEPT !.pc[h] = "clone"], RefRec("IsRefPrivate", h, NULL, NULL))

\* EnsureRefIsPrivate(): copyRef = Clone(). Without memory Clone() returns a
\* null handle and the call ends.
EnsureCloneAct ==
  \E h \in Sharers :
    /\ hPc[h] = "clone"
    /\ \/ \E newItem \in FreeObjects :
            RefCommit([Clone(RefStore, h, newItem, CopyRefOf(h)) EXCEPT !.pc[h] = "assign"],
                      [op |-> "Clone", h |-> h, item |-> hPtr[h], newItem |-> newItem])
       \/ RefCommit([RefStore EXCEPT !.pc[h] = "idle"],
                     RetRec("EnsureRefIsPrivate", h, "B_OUT_OF_MEMORY"))

\* EnsureRefIsPrivate(): *this = copyRef, that is SetRef(copyRef(), true),
\* up to the decrement of UnrefItem().
EnsureAssignAct ==
  \E h \in Sharers :
    /\ hPc[h] = "assign"
    /\ OutlivesUse(h)
    /\ LET R == UnrefItemDecrement(RefStore, h)
       IN RefCommit([R EXCEPT !.pc[h] = IF R.pc[h] = "release"
                                        THEN "assign release" ELSE "assign clear"],
                    RefRec("EnsureAssign", h, NULL, NULL))

\* EnsureRefIsPrivate(): the decrement returned true, the old object goes.
EnsureReleaseAct ==
  \E h \in Sharers :
    /\ hPc[h] = "assign release"
    /\ RefCommit([UnrefItemRelease(RefStore, h) EXCEPT !.pc[h] = "assign clear"],
                 RefRec("EnsureRelease", h, NULL, NULL))

\* EnsureRefIsPrivate(): the rest of SetRef() (pointer cleared, then set to
\* the copy, RefItem()), ~Ref() of copyRef, return B_NO_ERROR.
EnsureReturnAct ==
  \E h \in Sharers :
    /\ hPc[h] = "assign clear"
    /\ LET c == CopyRefOf(h)
           R1 == UnrefItemClear(RefStore, h)
           R2 == RefItem([R1 EXCEPT !.ptr[h] = R1.ptr[c], !.bit[h] = R1.bit[c]], h)
       IN RefCommit([Destroy(R2, c) EXCEPT !.pc[h] = "private"],
                    RetRec("EnsureRefIsPrivate", h, "B_NO_ERROR"))

\* One sharer holds the only strong handle to an object; the other objects
\* are not allocated yet.
SharerInit ==
  /\ TreeInit
  /\ \E x \in Objects :
       /\ hPtr = [h \in 1..(2 * MaxSharers) |-> IF h = 1 THEN x ELSE NULL]
       /\ refCount = [y \in CloneObjects |-> IF y = x THEN 1 ELSE 0]
       /\ objState = [y \in CloneObjects |-> IF y = x THEN "live" ELSE "free"]
       /\ manager = [y \in CloneObjects |-> y = x /\ FromPool(y)]
  /\ hBit = [h \in 1..(2 * MaxSharers) |-> TRUE]
  /\ hLive = [h \in 1..(2 * MaxSharers) |-> h = 1]
  /\ owner = [h \in 1..(2 * MaxSharers) |-> NULL]
  /\ releases = [x \in CloneObjects |-> 0]
  /\ hPc = [h \in 1..(2 * MaxSharers) |-> "idle"]
  /\ lastRef = RefRec("Init", NULL, NULL, NULL)

SharerNext ==
  \/ SharerCopyAct
  \/ SharerDummyAct
  \/ SharerUnrefAct
  \/ ThreadReleaseAct(Sharers)
  \/ ThreadClearAct(Sharers)
  \/ EnsureTestAct
  \/ EnsureCloneAct
  \/ EnsureAssignAct
  \/ EnsureReleaseAct
  \/ EnsureReturnAct

SharerSpec == SharerInit /\ [][SharerNext]_vars

\* Handles are copied and made private while the objects themselves are
\* copy-constructed and assigned.
ValueNext ==
  \/ SharerCopyAct
  \/ CopyConstructAct
  \/ AssignValueAct
  \/ EnsureTestAct
  \/ EnsureCloneAct
  \/ EnsureAssignAct
  \/ EnsureReleaseAct
  \/ EnsureReturnAct

ValueSpec == SharerInit /\ [][ValueNext]_vars

\* ------------------------------------------------------------ MultiDataIO
IOChildren == 1..MaxIOChildren

\* dynamic_cast<SeekableDataIO *>(child) != NULL
IsSeekable(c) == c <= 2

\* MUSCLE_NO_LIMIT, the largest uint32: above every size.
MUSCLE_NO_LIMIT == MaxWriteSize + 1

Min(a, b) == IF a <= b THEN a ELSE b

\* The MultiDataIO as the operations below take and return it.
IOStore == [childIOs |-> childIOs, pos |-> ioPos, absorb |-> absorbPartialErrors]

\* SeekableDataIO::Seek(offset, whence): the new position, or -1 for one
\* that cannot be had.
Seek(pos, offset, whence) ==
  LET target == IF whence = "IO_SEEK_SET" THEN offset ELSE pos + offset
  IN IF target < 0 THEN -1 ELSE target

\* SeekAll without the test for the last remaining child: with absorption
\* every child that fails the seek is removed.
RECURSIVE SeekAllAbsorbsLast(_, _, _, _, _, _)
SeekAllAbsorbsLast(IO, i, first, offset, whence, fails) ==
  IF i <= first THEN [io |-> IO, ret |-> "B_NO_ERROR"]
  ELSE LET c == IO.childIOs[i]
           to == Seek(IO.pos[c], offset, whence)
       IN IF ~IsSeekable(c) \/ c \in fails \/ to < 0
          THEN IF IO.absorb
               THEN SeekAllAbsorbsLast([IO EXCEPT !.childIOs = QueueRemoveItemAt(@, i - 1)],
                                       i - 1, first, offset, whence, fails)
               ELSE [io |-> IO, ret |-> "B_ERROR"]
          ELSE SeekAllAbsorbsLast([IO EXCEPT !.pos[c] = to], i - 1, first, offset, whence,
                                  fails)

\* MultiDataIO::SeekAll, from child i (counted from 1) down to child
\* first + 1; the children in `fails' refuse the seek.
RECURSIVE SeekAll(_, _, _, _, _, _)
SeekAll(IO, i, first, offset, whence, fails) ==
  IF i <= first THEN [io |-> IO, ret |-> "B_NO_ERROR"]
  ELSE LET c == IO.childIOs[i]
           to == Seek(IO.pos[c], offset, whence)
       IN IF ~IsSeekable(c) \/ c \in fails \/ to < 0
          THEN IF IO.absorb /\ Len(IO.childIOs) > 1
               THEN SeekAll([IO EXCEPT !.childIOs = QueueRemoveItemAt(@, i - 1)],
                            i - 1, first, offset, whence, fails)
               ELSE [io |-> IO, ret |-> "B_ERROR"]
          ELSE SeekAll([IO EXCEPT !.pos[c] = to], i - 1, first, offset, whence, fails)

\* The loop of MultiDataIO::Write over the children, last to first. rets[c]
\* is what child c's Write() returns when asked for `size' bytes; asked for
\* fewer it writes no more than asked.
RECURSIVE WriteLoop(_, _, _, _)
WriteLoop(W, i, size, rets) ==
  IF i < 1 \/ W.failed THEN W
  ELSE LET c == W.io.childIOs[i]
           asked == Min(size, W.minWrittenBytes)
           childRet == Min(rets[c], asked)
       IN IF childRet < 0
          THEN IF W.io.absorb /\ Len(W.io.childIOs) > 1
               THEN WriteLoop([W EXCEPT !.io.childIOs = QueueRemoveItemAt(@, i - 1)],
                              i - 1, size, rets)
               ELSE [W EXCEPT !.failed = TRUE]
          ELSE LET W1 == [W EXCEPT !.io.pos[c] = @ + childRet]
                   W2 == IF childRet < W.minWrittenBytes
                         THEN [W1 EXCEPT !.minWrittenBytes = childRet,
                                         !.newSeekPos = IF IsSeekable(c) THEN W1.io.pos[c] ELSE -1]
                         ELSE W1
               IN WriteLoop([W2 EXCEPT !.maxWrittenBytes = Max(@, childRet)],
                            i - 1, size, rets)

\* MultiDataIO::Write: the MultiDataIO afterwards, the value returned, and
\* the locals the return value is computed from.
Write(IO, size, rets, fails) ==
  LET W == WriteLoop([io |-> IO, failed |-> FALSE, newSeekPos |-> -1,
                      maxWrittenBytes |-> 0, minWrittenBytes |-> MUSCLE_NO_LIMIT],
                     Len(IO.childIOs), size, rets)
      done(io, ret) ==
        [io |-> io, ret |-> ret, minWrittenBytes |-> W.minWrittenBytes,
         maxWrittenBytes |-> W.maxWrittenBytes, newSeekPos |-> W.newSeekPos]
  IN IF W.failed THEN done(W.io, -1)
     ELSE IF W.minWrittenBytes < W.maxWrittenBytes
     THEN LET S == SeekAll(W.io, Len(W.io.childIOs), 0, W.newSeekPos, "IO_SEEK_CUR", fails)
          IN done(S.io, IF S.ret # "B_NO_ERROR" THEN -1 ELSE W.minWrittenBytes)
     ELSE done(W.io, IF W.maxWrittenBytes > 0 THEN W.minWrittenBytes ELSE 0)

\* multiIO.Write(buffer, size)
WriteAct ==
  \E size \in 0..MaxWriteSize, rets \in [IOChildren -> -1..MaxWriteSize],
     fails \in SUBSET IOChildren :
    /\ \A c \in IOChildren : ioPos[c] <= MaxSeekPos
    /\ LET res == Write(IOStore, size, rets, fails)
       IN /\ childIOs' = res.io.childIOs
          /\ ioPos' = res.io.pos
          /\ lastIO' = [op |-> "Write", size |-> size, ret |-> res.ret,
                        minWrittenBytes |-> res.minWrittenBytes,
                        maxWrittenBytes |-> res.maxWrittenBytes,
                        newSeekPos |-> res.newSeekPos]
          /\ UNCHANGED <<absorbPartialErrors, clock, lastTime, lastCall, treeVars, refVars,
                         bufVars>>

\* A MultiDataIO over all children, each at position 0, with either setting
\* of _absorbPartialErrors.
IOInit ==
  /\ TreeFields /\ RefIdle /\ TimeIdle /\ BufIdle
  /\ childIOs = [i \in IOChildren |-> i]
  /\ ioPos = [c \in IOChildren |-> 0]
  /\ absorbPartialErrors \in BOOLEAN
  /\ lastIO = [op |-> "Init"]

IONext == WriteAct

IOSpec == IOInit /\ [][IONext]_vars

\* Read that, having read, seeks all children, the first one too.
RECURSIVE ReadSeeksFirstToo(_, _, _, _, _)
ReadSeeksFirstToo(IO, size, n, fails, attempts) ==
  IF Len(IO.childIOs) > 0
  THEN LET c == IO.childIOs[1]
           ret == IF c \in fails THEN -1 ELSE n
       IN IF ret < 0
          THEN IF IO.absorb /\ Len(IO.childIOs) > 1
               THEN ReadSeeksFirstToo([IO EXCEPT !.childIOs = Tail(@)], size, n, fails,
                                      attempts + 1)
               ELSE [io |-> IO, ret |-> -1, attempts |-> attempts + 1, from |-> NULL]
          ELSE IF ret > 0
          THEN LET IO1 == [IO EXCEPT !.pos[c] = @ + ret]
                   S == SeekAll(IO1, Len(IO1.childIOs), 0, ret, "IO_SEEK_CUR", fails)
               IN [io |-> S.io, ret |-> IF S.ret = "B_NO_ERROR" THEN ret ELSE -1,
                   attempts |-> attempts + 1, from |-> c]
          ELSE [io |-> IO, ret |-> 0, attempts |-> attempts + 1, from |-> c]
  ELSE [io |-> IO, ret |-> 0, attempts |-> attempts, from |-> NULL]

\* MultiDataIO::Read. The children in `fails' return -1 from Read() and
\* refuse to seek; a child that does read returns n bytes (n <= size) and
\* has moved on by as many. attempts counts the calls of a child's Read().
RECURSIVE Read(_, _, _, _, _)
Read(IO, size, n, fails, attempts) ==
  IF Len(IO.childIOs) > 0
  THEN LET c == IO.childIOs[1]
           ret == IF c \in fails THEN -1 ELSE n
       IN IF ret < 0
          THEN IF IO.absorb /\ Len(IO.childIOs) > 1
               THEN Read([IO EXCEPT !.childIOs = Tail(@)], size, n, fails, attempts + 1)
               ELSE [io |-> IO, ret |-> -1, attempts |-> attempts + 1, from |-> NULL]
          ELSE IF ret > 0
          THEN LET IO1 == [IO EXCEPT !.pos[c] = @ + ret]
                   S == SeekAll(IO1, Len(IO1.childIOs), 1, ret, "IO_SEEK_CUR", fails)
               IN [io |-> S.io, ret |-> IF S.ret = "B_NO_ERROR" THEN ret ELSE -1,
                   attempts |-> attempts + 1, from |-> c]
          ELSE [io |-> IO, ret |-> 0, attempts |-> attempts + 1, from |-> c]
  ELSE [io |-> IO, ret |-> 0, attempts |-> attempts, from |-> NULL]

IOCommit(IO, rec) ==
  /\ childIOs' = IO.childIOs
  /\ ioPos' = IO.pos
  /\ lastIO' = rec
  /\ UNCHANGED <<absorbPartialErrors, clock, lastTime, lastCall, treeVars, refVars, bufVars>>

\* multiIO.Read(buffer, size)
ReadAct ==
  \E size \in {0, MaxWriteSize}, n \in 0..MaxWriteSize, fails \in SUBSET Range(childIOs) :
    /\ n <= size
    /\ \A c \in IOChildren : ioPos[c] <= MaxSeekPos
    /\ LET res == Read(IOStore, size, n, fails, 0)
       IN IOCommit(res.io, [op |-> "Read", size |-> size, fails |-> fails, ret |-> res.ret,
                            from |-> res.from, attempts |-> res.attempts])

\* multiIO.Write(buffer, size) where the children in `fails' fail to write,
\* the children in `short' write one byte less than asked, and the child
\* noSeek, if any, refuses the seek that follows.
WriteSomeAct ==
  \E fails \in SUBSET Range(childIOs), short \in SUBSET Range(childIOs),
     noSeek \in Range(childIOs) \cup {NULL} :
    /\ fails \cap short = {} /\ noSeek \notin fails
    /\ \A c \in IOChildren : ioPos[c] <= MaxSeekPos
    /\ LET size == MaxWriteSize
           rets == [c \in IOChildren |-> IF c \in fails THEN -1
                                         ELSE IF c \in short THEN size - 1 ELSE size]
           res == Write(IOStore, size, rets, {noSeek})
       IN IOCommit(res.io, [op |-> "Write", size |-> size, fails |-> fails, short |-> short,
                            noSeek |-> noSeek, ret |-> res.ret])

\* multiIO.SeekAll(first, offset, whence), as Seek() and Read() call it
SeekAllAct ==
  \E first \in {0, 1}, offset \in {-1, 1}, whence \in {"IO_SEEK_SET", "IO_SEEK_CUR"},
     fails \in SUBSET Range(childIOs) :
    /\ \A c \in IOChildren : ioPos[c] <= MaxSeekPos
    /\ LET res == SeekAll(IOStore, Len(childIOs), first, offset, whence, fails)
       IN IOCommit(res.io, [op |-> "SeekAll", first |-> first, offset |-> offset,
                            whence |-> whence, fails |-> fails, ret |-> res.ret])

\* A MultiDataIO without children or over all children, each at position
\* 0, with either setting of _absorbPartialErrors.
MultiInit ==
  /\ TreeFields /\ RefIdle /\ TimeIdle /\ BufIdle
  /\ childIOs \in {<<>>, [i \in IOChildren |-> i]}
  /\ ioPos = [c \in IOChildren |-> 0]
  /\ absorbPartialErrors \in BOOLEAN
  /\ lastIO = [op |-> "Init"]

MultiNext ==
  \/ ReadAct
  \/ WriteSomeAct
  \/ SeekAllAct

MultiSpec == MultiInit /\ [][MultiNext]_vars

\* -------------------------------------------------------------- OnceEvery
\* uint64 arithmetic wraps at 2^TimeBits here.
TimeModulus == 2 ^ TimeBits
Times == 0..(TimeModulus - 1)

\* OnceEvery(uint64 interval, uint64 & lastTime) at time now: the value
\* returned and lastTime afterwards.
OnceEvery(interval, lt, now) ==
  IF now >= (lt + interval) % TimeModulus
  THEN [ret |-> TRUE, lastTime |-> now]
  ELSE [ret |-> FALSE, lastTime |-> lt]

\* GetRunTime64() moves on; it never goes back and stays within uint64.
TickAct ==
  \E t \in Times :
    /\ t > clock
    /\ clock' = t
    /\ UNCHANGED <<lastTime, lastCall, childIOs, ioPos, absorbPartialErrors, lastIO,
                   treeVars, refVars, bufVars>>

\* OnceEvery(interval, lastTime) with the caller's interval and state
\* variable. firedAt is the time of the latest call that returned true; odd
\* tells a call from the call before it.
OnceEveryAct ==
  LET res == OnceEvery(lastCall.interval, lastTime, clock)
  IN /\ lastTime' = res.lastTime
     /\ lastCall' = [op |-> "OnceEvery", interval |-> lastCall.interval, ret |-> res.ret,
                     firedAt |-> IF res.ret THEN clock ELSE lastCall.firedAt,
                     odd |-> ~lastCall.odd]
     /\ UNCHANGED <<clock, childIOs, ioPos, absorbPartialErrors, lastIO, treeVars, refVars,
                    bufVars>>

\* Any interval, any value in the state variable, any time on the clock.
TimeInit ==
  /\ TreeFields /\ RefIdle /\ IOIdle /\ BufIdle
  /\ clock \in Times
  /\ lastTime \in Times
  /\ \E interval \in Times :
       lastCall = [op |-> "Init", interval |-> interval, ret |-> FALSE, firedAt |-> -1,
                   odd |-> FALSE]

TimeNext ==
  \/ TickAct
  \/ OnceEveryAct

TimeSpec == TimeInit /\ [][TimeNext]_vars

\* -------------------------------------------------------------- ByteBuffer
\* uint32 comparison, subtraction, halving and multiplication by a small
\* number, on <<high 16 bits, low 16 bits>>; sums and products wrap at 2^32.
Less32(a, b) == a[1] < b[1] \/ (a[1] = b[1] /\ a[2] < b[2])

Max32(a, b) == IF Less32(a, b) THEN b ELSE a

Sub32(a, b) ==
  LET lo == a[2] - b[2]
      hi == a[1] - b[1] - (IF lo < 0 THEN 1 ELSE 0)
  IN <<(hi + 65536) % 65536, (lo + 65536) % 65536>>

Half32(a) == <<a[1] \div 2, (a[2] + (a[1] % 2) * 65536) \div 2>>

RECURSIVE Mul32(_, _)
Mul32(a, k) == IF k = 0 THEN Zero32 ELSE Add32(a, Mul32(a, k - 1))

\* The second operand of muscleMax() in SetNumBytesWithExtraSpace().
MinExtraSpace == <<0, 128>>

\* The ByteBuffer as the operations below take and return it.
BufStore == [valid |-> numValidBytes, alloc |-> numAllocatedBytes, ret |-> "B_NO_ERROR"]

\* ByteBuffer::SetNumBytes; oom tells whether the allocator refuses the
\* request when one is made.
SetNumBytes(B, newNumBytes, retainData, oom) ==
  IF Less32(B.alloc, newNumBytes)
  THEN IF oom THEN [B EXCEPT !.ret = "B_OUT_OF_MEMORY"]
       ELSE [B EXCEPT !.alloc = newNumBytes, !.valid = newNumBytes, !.ret = "B_NO_ERROR"]
  ELSE [B EXCEPT !.valid = newNumBytes, !.ret = "B_NO_ERROR"]

\* ByteBuffer::SetNumBytesWithExtraSpace
SetNumBytesWithExtraSpace(B, newNumValidBytes, allocExtra, oom) ==
  LET B1 == SetNumBytes(B, IF allocExtra /\ Less32(B.alloc, newNumValidBytes)
                           THEN Max32(Mul32(newNumValidBytes, 4), MinExtraSpace)
                           ELSE newNumValidBytes,
                        TRUE, oom)
  IN IF B1.ret # "B_NO_ERROR" THEN B1 ELSE [B1 EXCEPT !.valid = newNumValidBytes]

\* ByteBuffer::AppendBytes; when the bytes are the buffer's own and a
\* reallocation is needed they are copied first, and the call is repeated
\* with the copy.
AppendBytes(B, numBytes, allocExtra, oom) ==
  IF numBytes = Zero32 THEN [B EXCEPT !.ret = "B_NO_ERROR"]
  ELSE SetNumBytesWithExtraSpace(B, Add32(B.valid, numBytes), allocExtra, oom)

\* ByteBuffer::WriteInt8s, WriteInt16s, WriteInt32s and WriteInt64s, for
\* sizeof(item) 1, 2, 4 and 8.
WriteInts(B, numVals, sizeofItem, writeByteOffset, oom) ==
  LET numBytes == Mul32(numVals, sizeofItem)
      newValidSize == Max32(B.valid, Add32(writeByteOffset, numBytes))
  IN IF Less32(B.valid, newValidSize)
     THEN SetNumBytesWithExtraSpace(B, newValidSize, TRUE, oom)
     ELSE [B EXCEPT !.ret = "B_NO_ERROR"]

\* ByteBuffer::Clear
ClearBuffer(B, releaseBuffers) ==
  IF releaseBuffers
  THEN [B EXCEPT !.valid = Zero32, !.alloc = Zero32, !.ret = "B_NO_ERROR"]
  ELSE SetNumBytes(B, Zero32, FALSE, FALSE)

\* ByteBuffer::SetBuffer; local tells whether `buffer' points into this
\* ByteBuffer's own valid bytes, and then at which of them.
SetBuffer(B, numBytes, local, at, oom) ==
  IF local
  THEN LET numReadableBytes == Sub32(B.valid, at)
       IN IF Less32(numReadableBytes, numBytes) THEN [B EXCEPT !.ret = "B_BAD_ARGUMENT"]
          ELSE SetNumBytes(B, numBytes, TRUE, oom)
  ELSE SetNumBytes(ClearBuffer(B, Less32(numBytes, Half32(B.alloc))), numBytes, FALSE, oom)

\* ByteBuffer::FreeExtraBytes
FreeExtraBytes(B, oom) ==
  IF Less32(B.valid, B.alloc)
  THEN IF B.valid = Zero32 \/ ~oom
       THEN [B EXCEPT !.alloc = B.valid, !.ret = "B_NO_ERROR"]
       ELSE [B EXCEPT !.ret = "B_OUT_OF_MEMORY"]
  ELSE [B EXCEPT !.ret = "B_NO_ERROR"]

\* Sizes and offsets the callers use: none, small ones, 2^30 + 1, whose
\* fourfold does not fit in 32 bits, and the largest uint32.
BufSizes == {Zero32, <<0, 1>>, <<0, 200>>, <<16384, 1>>, <<65535, 65535>>}

BufCommit(B, op) ==
  /\ numValidBytes' = B.valid
  /\ numAllocatedBytes' = B.alloc
  /\ lastBuf' = [op |-> op, ret |-> B.ret, calls |-> lastBuf.calls + 1]
  /\ UNCHANGED <<treeVars, refVars, utilVars>>

SetNumBytesAct ==
  \E n \in BufSizes, retainData \in BOOLEAN, oom \in BOOLEAN :
    /\ lastBuf.calls < MaxBufferCalls
    /\ BufCommit(SetNumBytes(BufStore, n, retainData, oom), "SetNumBytes")

SetNumBytesWithExtraSpaceAct ==
  \E n \in BufSizes, allocExtra \in BOOLEAN, oom \in BOOLEAN :
    /\ lastBuf.calls < MaxBufferCalls
    /\ BufCommit(SetNumBytesWithExtraSpace(BufStore, n, allocExtra, oom),
                 "SetNumBytesWithExtraSpace")

AppendBytesAct ==
  \E n \in BufSizes, allocExtra \in BOOLEAN, oom \in BOOLEAN :
    /\ lastBuf.calls < MaxBufferCalls
    /\ BufCommit(AppendBytes(BufStore, n, allocExtra, oom), "AppendBytes")

WriteIntsAct ==
  \E n \in BufSizes, sizeofItem \in {1, 2, 4, 8}, writeByteOffset \in BufSizes,
     oom \in BOOLEAN :
    /\ lastBuf.calls < MaxBufferCalls
    /\ BufCommit(WriteInts(BufStore, n, sizeofItem, writeByteOffset, oom), "WriteInts")

SetBufferAct ==
  \E n \in BufSizes, local \in BOOLEAN, at \in BufSizes, oom \in BOOLEAN :
    /\ lastBuf.calls < MaxBufferCalls
    /\ local => Less32(at, numValidBytes)
    /\ BufCommit(SetBuffer(BufStore, n, local, at, oom), "SetBuffer")

FreeExtraBytesAct ==
  \E oom \in BOOLEAN :
    /\ lastBuf.calls < MaxBufferCalls
    /\ BufCommit(FreeExtraBytes(BufStore, oom), "FreeExtraBytes")

ClearAct ==
  \E releaseBuffers \in BOOLEAN :
    /\ lastBuf.calls < MaxBufferCalls
    /\ BufCommit(ClearBuffer(BufStore, releaseBuffers), "Clear")

\* A ByteBuffer as its constructor leaves it: no bytes, nothing allocated.
BufInit ==
  /\ TreeFields /\ RefIdle /\ IOIdle /\ TimeIdle
  /\ numValidBytes = Zero32
  /\ numAllocatedBytes = Zero32
  /\ lastBuf = [op |-> "Init", ret |-> "B_NO_ERROR", calls |-> 0]

BufNext ==
  \/ SetNumBytesAct
  \/ SetNumBytesWithExtraSpaceAct
  \/ AppendBytesAct
  \/ WriteIntsAct
  \/ SetBufferAct
  \/ FreeExtraBytesAct
  \/ ClearAct

BufSpec == BufInit /\ [][BufNext]_vars

\* ================================================================== claims
NamesOf(nm, nodes) == {nm[n] : n \in nodes}
IndexNodes(p) == Range(orderedIndex[p])
IndexNames(p) == NamesOf(nodeName, IndexNodes(p))
ChildNames(p) == NamesOf(nodeName, children[p])

\* The notifications of the last operation that are IndexChanged(op, ., key) of node p.
IndexEvents(evs, p, op, key) ==
  {i \in 1..Len(evs) : evs[i] = IndexChangedEv(p, op, evs[i].pos, key)}

\* C1: every entry of a node's ordered index is a node that the node's child
\* table holds (under its name, and the very same object).
C1_IndexEntriesAreChildren ==
  \A p \in alloc : IndexNodes(p) \subseteq children[p]

\* C2: every node's stored depth is the number of its ancestors (0 for a
\* node without a parent).
C2_DepthIsAncestorCount ==
  \A n \in alloc : depth[n] = AncestorCount(parent, n)

\* C3: a node held by p's child table has p as its parent, and no node is
\* held by the child tables of two nodes.
C3_OneOwningParent ==
  \A p \in alloc : \A c \in children[p] :
    /\ parent[c] = p
    /\ \A q \in alloc \ {p} : c \notin children[q]

\* C10: after RemoveChild(name) succeeds the index holds no entry of that
\* name, and exactly one IndexChanged(REMOVED) was emitted if the child was
\* indexed, none if it was not.
C10_RemoveChildClearsIndex ==
  [][(last'.op = "RemoveChild" /\ last'.ret = "B_NO_ERROR") =>
       /\ last'.key \notin NamesOf(nodeName', Range(orderedIndex'[last'.p]))
       /\ Cardinality(IndexEvents(events', last'.p, "REMOVED", last'.key))
            = IF last'.key \in IndexNames(last'.p) THEN 1 ELSE 0]_vars

\* What C8 says of one ReorderChild(c, before) step on index old, giving new.
ReorderedAsClaimed(p, c, b, old, new, evs) ==
  \E i \in 1..Len(old), j \in 1..Len(new) :
    /\ old[i] = c
    /\ new[j] = c
    /\ QueueRemoveItemAt(old, i - 1) = QueueRemoveItemAt(new, j - 1)
    /\ IF b \in NamesOf(nodeName, Range(old))
       THEN j < Len(new) /\ nodeName[new[j + 1]] = b
       ELSE j = Len(new)
    /\ evs = <<IndexChangedEv(p, "REMOVED", i - 1, nodeName[c]),
               IndexChangedEv(p, "INSERTED", j - 1, nodeName[c])>>

\* C8: ReorderChild(c, before=b) with c and b distinct entries of the index
\* leaves c immediately before b (last when there is no such b), the other
\* entries in their order, and emits REMOVED(oldPos, c), INSERTED(newPos, c).
C8_ReorderMovesBefore ==
  [][(/\ last'.op = "ReorderChild"
      /\ last'.c \in IndexNodes(last'.p)
      /\ last'.before # nodeName[last'.c])
     => ReorderedAsClaimed(last'.p, last'.c, last'.before,
                           orderedIndex[last'.p], orderedIndex'[last'.p], events')]_vars

\* The same statement for an index whose entries are distinct children of
\* the node, as C1 and C10 would have it.
CoherentIndex(p) ==
  /\ IndexNodes(p) \subseteq children[p]
  /\ Cardinality(IndexNodes(p)) = Len(orderedIndex[p])

C8_ReorderOfCoherentIndex ==
  [][(/\ last'.op = "ReorderChild"
      /\ CoherentIndex(last'.p)
      /\ last'.c \in IndexNodes(last'.p)
      /\ last'.before # nodeName[last'.c])
     => ReorderedAsClaimed(last'.p, last'.c, last'.before,
                           orderedIndex[last'.p], orderedIndex'[last'.p], events')]_vars

\* ---- ReorderChild of a child that is not in the index
ReorderOfUnindexedChild ==
  /\ last'.op = "ReorderChild"
  /\ last'.c # NULL
  /\ hasIndex[last'.p]
  /\ last'.c \in children[last'.p]
  /\ last'.c \notin IndexNodes(last'.p)

InsertedEvents(evs) == {i \in 1..Len(evs) : evs[i].type = "IndexChanged" /\ evs[i].op = "INSERTED"}
RemovedEvents(evs)  == {i \in 1..Len(evs) : evs[i].type = "IndexChanged" /\ evs[i].op = "REMOVED"}

\* C9 as stated: a ReorderChild of a child that is not in the (existing) index
\* adds the child to the index and emits INSERTED without any REMOVED.
C9_UnindexedChildIsInserted ==
  [][ReorderOfUnindexedChild =>
       /\ last'.c \in Range(orderedIndex'[last'.p])
       /\ InsertedEvents(events') # {}
       /\ RemovedEvents(events') = {}]_vars

\* C9 (amended): a ReorderChild of a child that is not in the (existing) index
\* never emits INSERTED without a REMOVED of the same name before it; when no
\* index entry carries the child's name, the index is unchanged, nothing is
\* emitted, and the call returns B_DATA_NOT_FOUND (B_NO_ERROR when `before`
\* is the child's own name).
C9_UnindexedChildIsRefused ==
  [][ReorderOfUnindexedChild =>
       LET p == last'.p
           nm == nodeName[last'.c]
       IN /\ \A i \in InsertedEvents(events') :
               \E j \in RemovedEvents(events') : j < i /\ events'[j].name = events'[i].name
          /\ nm \notin IndexNames(p) =>
               /\ orderedIndex' = orderedIndex
               /\ events' = <<>>
               /\ last'.ret = IF last'.before = nm THEN "B_NO_ERROR" ELSE "B_DATA_NOT_FOUND"]_vars

\* Witness of C9: ReorderChild has just refused a child that a non-empty index
\* does not hold.
C9_Witness ==
  /\ last.op = "ReorderChild"
  /\ last.ret = "B_DATA_NOT_FOUND"
  /\ last.c # NULL
  /\ hasIndex[last.p]
  /\ orderedIndex[last.p] # <<>>
  /\ last.c \in children[last.p]
  /\ last.c \notin IndexNodes(last.p)

\* ---- unnamed InsertOrderedChild
UnnamedInsert ==
  /\ last'.op = "InsertOrderedChild"
  /\ last'.flag
  /\ last'.ret = "B_NO_ERROR"

NameI0 == <<"I", "0">>
NameI2 == <<"I", "2">>
NameI3 == <<"I", "3">>
NameI6 == <<"I", "6">>

\* The numbers of the children named "I<digits>".
AutoNumbers(p) ==
  {ChildIDOf(nodeName[c]) : c \in {d \in children[p] : nodeName[d] = AutoName(ChildIDOf(nodeName[d]))}}

\* C6 as stated: the generated name goes past the largest numeric suffix
\* present; I0, I1, I2 on a new parent, and I6 once a child I5 was put.
C6_NamePastLargestSuffix ==
  [][UnnamedInsert =>
       LET p == last'.p
           nm == nodeName'[last'.c]
       IN /\ \A k \in AutoNumbers(p) : ChildIDOf(nm) > k
          /\ (orderedCounter[p] = 0 /\ ChildNames(p) = {}) => nm = NameI0
          /\ (orderedCounter[p] = 1 /\ ChildNames(p) = {NameI0}) => nm = NameI1
          /\ (orderedCounter[p] = 2 /\ ChildNames(p) = {NameI0, NameI1}) => nm = NameI2
          /\ (orderedCounter[p] = 3 /\ ChildNames(p) = {NameI0, NameI1, NameI2, NameI5})
               => nm = NameI6]_vars

\* The first k >= from for which "I<k>" is not among the names.
RECURSIVE LeastFreeNumber(_, _)
LeastFreeNumber(names, from) ==
  IF <<"I">> \o UInt32ToString(from) \notin names THEN from
  ELSE LeastFreeNumber(names, from + 1)

\* C6 (amended): the generated name is I<n> for the first n, counting up from
\* the node's own counter, that no child carries; the numbers of the children
\* present are not looked at.  I0, I1, I2 on a new parent, and I3 once a
\* child I5 was put.
C6_NameFromCounter ==
  [][UnnamedInsert =>
       LET p == last'.p
           nm == nodeName'[last'.c]
           n == LeastFreeNumber(ChildNames(p), orderedCounter[p])
       IN /\ nm = <<"I">> \o UInt32ToString(n)
          /\ orderedCounter'[p] = n + 1
          /\ (orderedCounter[p] = 0 /\ ChildNames(p) = {}) => nm = NameI0
          /\ (orderedCounter[p] = 1 /\ ChildNames(p) = {NameI0}) => nm = NameI1
          /\ (orderedCounter[p] = 2 /\ ChildNames(p) = {NameI0, NameI1}) => nm = NameI2
          /\ (orderedCounter[p] = 3 /\ ChildNames(p) = {NameI0, NameI1, NameI2, NameI5})
               => nm = NameI3]_vars

\* Witness of C6: the scenario has run to its end: I0, I1, I2 were generated,
\* I5 was put, and the next unnamed insert has just returned.
C6_Witness ==
  /\ last.op = "InsertOrderedChild"
  /\ last.flag
  /\ ChildNames(1) = {NameI0, NameI1, NameI2, NameI3, NameI5}
  /\ NamesOf(nodeName, IndexNodes(1)) = {NameI0, NameI1, NameI2, NameI3}
  /\ orderedCounter[1] = 4

IsAutoNameForm(nm) ==
  /\ Len(nm) >= 2
  /\ nm[1] = "I"
  /\ \A i \in 2..Len(nm) : IsDigit(nm[i])
  /\ Len(nm) > 2 => nm[2] # "0"

\* C7: an unnamed InsertOrderedChild returns with a name I<decimal counter>
\* that no child carried at the call, taken from a counter that only
\* increases; no child is replaced and the child table grows by one entry.
C7_UnnamedInsertAddsOneChild ==
  [][/\ \A p \in NodeIds : orderedCounter'[p] >= orderedCounter[p]
     /\ UnnamedInsert =>
          LET p == last'.p
              n == last'.c
              nm == nodeName'[n]
          IN /\ IsAutoNameForm(nm)
             /\ orderedCounter[p] <= AtolDigits(nm, 2, 0)
             /\ AtolDigits(nm, 2, 0) < orderedCounter'[p]
             /\ nm \notin ChildNames(p)
             /\ n \notin children[p]
             /\ children'[p] = children[p] \cup {n}
             /\ Cardinality(children'[p]) = Cardinality(children[p]) + 1]_vars

\* Witness of C7: an unnamed insert has just skipped the name I1, which a
\* child put by the caller carries, and generated I2.
C7_Witness ==
  /\ last.op = "InsertOrderedChild"
  /\ last.flag
  /\ nodeName[last.c] = NameI2
  /\ \E c \in children[1] \ IndexNodes(1) : nodeName[c] = NameI1

\* ---- reference counts
StrongHandles(live, ptr, bit, x) == {h \in Handles : live[h] /\ ptr[h] = x /\ bit[h]}
WeakHandles(live, ptr, bit, x) == {h \in Handles : live[h] /\ ptr[h] = x /\ ~bit[h]}

\* C4: the reference count of every object that exists equals the number of
\* live handles that point at it with the do-refcount bit set, after every
\* handle operation.
C4_RefCountIsStrongHandleCount ==
  \A x \in Objects :
    objState[x] # "deleted" =>
      refCount[x] = Cardinality(StrongHandles(hLive, hPtr, hBit, x))

\* Witness of C4: after a SetRef(), an object is counted by one handle and
\* pointed at by another, non-counting one.
C4_Witness ==
  \E x \in Objects :
    /\ lastRef.op = "SetRef"
    /\ refCount[x] = 1
    /\ Cardinality(StrongHandles(hLive, hPtr, hBit, x)) = 1
    /\ WeakHandles(hLive, hPtr, hBit, x) # {}

\* C5: an object is released only by the destructor, Reset, SetRef or an
\* assignment of the last counting handle that points at it, and then at
\* once: recycled if it has a manager, deleted otherwise; never while another
\* counting handle remains, never a second time, never through a
\* non-counting handle.
C5_ReleasedWithLastStrongHandle ==
  [][\A x \in Objects :
       LET before == StrongHandles(hLive, hPtr, hBit, x)
           after == StrongHandles(hLive', hPtr', hBit', x)
       IN /\ (releases'[x] # releases[x] \/ objState'[x] # objState[x]) =>
               /\ releases[x] = 0 /\ releases'[x] = 1
               /\ objState[x] = "live"
               /\ objState'[x] = IF GetManager(x) THEN "recycled" ELSE "deleted"
               /\ before = {lastRef'.h}
               /\ after = {}
               /\ lastRef'.op \in {"Destroy", "Reset", "SetRef", "Assign"}
          /\ (before # {} /\ after = {} /\ lastRef'.op # "Neutralize") =>
               releases'[x] = releases[x] + 1]_vars

\* Witness of C5: the pooled object was recycled and the other one deleted,
\* each once, the last of them just now, and a non-counting handle still
\* points at one of them.
C5_Witness ==
  /\ lastRef.op \in {"Destroy", "Reset", "SetRef", "Assign"}
  /\ objState[1] = "recycled" /\ releases[1] = 1
  /\ objState[2] = "deleted" /\ releases[2] = 1
  /\ \E h \in Handles : hLive[h] /\ ~hBit[h] /\ hPtr[h] \in {1, 2}

\* ---- RemoveChild
BeingRemovedEvents(evs, n) ==
  {i \in 1..Len(evs) : evs[i].type = "NodeChanged" /\ evs[i].op = "ISBEINGREMOVED"
                       /\ evs[i].node = n}

\* C11: RemoveChild(name, notify, recurse=true) emits exactly one
\* NodeChanged(ISBEINGREMOVED) for every node of the removed subtree, that of
\* a descendant before that of its ancestor, and for a node that is in its
\* parent's ordered index an IndexChanged(REMOVED) before the node's
\* NodeChanged(ISBEINGREMOVED).
C11_SubtreeRemovedDepthFirst ==
  [][(last'.op = "RemoveChild" /\ last'.flag /\ last'.ret = "B_NO_ERROR") =>
       LET S == SubtreeOf(children, last'.c)
           evs == events'
           ParentsOf(n) == IF n = last'.c THEN {last'.p} ELSE {m \in S : n \in children[m]}
       IN /\ \A n \in alloc :
               Cardinality(BeingRemovedEvents(evs, n)) = IF n \in S THEN 1 ELSE 0
          /\ \A n \in S : \A d \in SubtreeOf(children, n) \ {n} :
               \A i \in BeingRemovedEvents(evs, d), j \in BeingRemovedEvents(evs, n) : i < j
          /\ \A n \in S : \A m \in ParentsOf(n) :
               n \in Range(orderedIndex[m]) =>
                 \E i \in 1..Len(evs) :
                   /\ evs[i] = IndexChangedEv(m, "REMOVED", evs[i].pos, nodeName[n])
                   /\ \A j \in BeingRemovedEvents(evs, n) : i < j]_vars

\* The child tables form a forest: every node is in at most one child table
\* and its _parent is the node that holds it.
ProperTree ==
  \A p \in alloc : \A c \in children[p] :
    /\ parent[c] = p
    /\ \A q \in alloc \ {p} : c \notin children[q]

\* C11 on a proper tree (no node in two child tables).
C11_ProperSubtreeRemovedDepthFirst ==
  [][(last'.op = "RemoveChild" /\ last'.flag /\ last'.ret = "B_NO_ERROR" /\ ProperTree) =>
       LET S == SubtreeOf(children, last'.c)
           evs == events'
           ParentsOf(n) == IF n = last'.c THEN {last'.p} ELSE {m \in S : n \in children[m]}
       IN /\ \A n \in alloc :
               Cardinality(BeingRemovedEvents(evs, n)) = IF n \in S THEN 1 ELSE 0
          /\ \A n \in S : \A d \in SubtreeOf(children, n) \ {n} :
               \A i \in BeingRemovedEvents(evs, d), j \in BeingRemovedEvents(evs, n) : i < j
          /\ \A n \in S : \A m \in ParentsOf(n) :
               n \in Range(orderedIndex[m]) =>
                 \E i \in 1..Len(evs) :
                   /\ evs[i] = IndexChangedEv(m, "REMOVED", evs[i].pos, nodeName[n])
                   /\ \A j \in BeingRemovedEvents(evs, n) : i < j]_vars

NodeFields ==
  <<alloc, nodeName, parent, depth, children, hasChildren, orderedIndex, hasIndex,
    orderedCounter, maxChildIDHint, data, cachedDataChecksum>>

\* C12: RemoveChild(name) on a node that has no child of that name returns
\* DataNotFound, leaves every node field (child table, ordered index
\* included) and the caller's node counter as they were, and emits nothing.
C12_RemoveMissingChildChangesNothing ==
  [][(last'.op = "RemoveChild" /\ last'.key \notin ChildNames(last'.p)) =>
       /\ last'.ret = "B_DATA_NOT_FOUND"
       /\ last'.decr = 0
       /\ events' = <<>>
       /\ UNCHANGED NodeFields]_vars

\* Witness of C12: RemoveChild was refused on a node that has another child
\* and an index entry.
C12_Witness ==
  /\ last.op = "RemoveChild"
  /\ last.ret = "B_DATA_NOT_FOUND"
  /\ last.key \notin ChildNames(last.p)
  /\ children[last.p] # {}
  /\ orderedIndex[last.p] # <<>>

\* ---- PutChild
\* What the claim says of a PutChild(c) on p, given what p.depth has to be.
PutChildAsClaimed(p, c, notify) ==
  IF c = NULL
  THEN /\ last'.ret = "B_BAD_ARGUMENT"
       /\ events' = <<>>
       /\ UNCHANGED NodeFields
  ELSE LET old == GetChild(Store, p, nodeName[c])
           oldPayload == IF old # NULL THEN data[old] ELSE NULL
       IN /\ last'.ret = "B_NO_ERROR"
          /\ {d \in children'[p] : nodeName'[d] = nodeName[c]} = {c}
          /\ parent'[c] = p
          /\ depth'[c] = depth'[p] + 1
          /\ events' = IF notify
                       THEN <<NewNodeEv(c), NodeChangedEv(c, oldPayload, "")>>
                       ELSE <<>>

\* C13: PutChild(child) with a non-null child succeeds, the parent's child
\* table then holds exactly that child under its name, child.parent is the
\* parent and child.depth is parent.depth + 1; with notifications it emits
\* NewNode(child), then NodeChanged(child, oldPayload) with the payload of
\* the replaced child or null; PutChild(null) returns BadArgument and
\* changes nothing.
C13_PutChildPostconditions ==
  [][last'.op = "PutChild" => PutChildAsClaimed(last'.p, last'.c, last'.flag)]_vars

\* C13 for parents whose own depth is their number of ancestors.
C13_PutChildBelowCorrectDepth ==
  [][(last'.op = "PutChild" /\ depth[last'.p] = AncestorCount(parent, last'.p))
       => PutChildAsClaimed(last'.p, last'.c, last'.flag)]_vars

\* ---- InsertIndexEntryAt
\* An InsertIndexEntryAt() that returns `status' without touching the index.
IndexEntryRefused(status) ==
  /\ last'.ret = status
  /\ orderedIndex' = orderedIndex
  /\ hasIndex' = hasIndex
  /\ events' = <<>>

\* An InsertIndexEntryAt(pos, key) that put the child named key at pos.
IndexEntryInserted(p, pos, key) ==
  last'.ret = "B_NO_ERROR" =>
    /\ GetChild(Store, p, key) \in children[p]
    /\ orderedIndex'[p] = QueueInsertItemAt(orderedIndex[p], pos, GetChild(Store, p, key))
    /\ orderedIndex'[p][pos + 1] = GetChild(Store, p, key)
    /\ events' = <<IndexChangedEv(p, "INSERTED", pos, key)>>

\* C14 as stated: InsertIndexEntryAt(pos, name) returns BadObject whenever
\* the node has no children and DataNotFound when it has children but none of
\* that name, the index unchanged and nothing emitted; on success the child
\* named name is at pos and IndexChanged(INSERTED, pos, name) is emitted.
C14_BadObjectWithoutChildren ==
  [][last'.op = "InsertIndexEntryAt" =>
       IF children[last'.p] = {} THEN IndexEntryRefused("B_BAD_OBJECT")
       ELSE IF last'.key \notin ChildNames(last'.p) THEN IndexEntryRefused("B_DATA_NOT_FOUND")
       ELSE IndexEntryInserted(last'.p, last'.pos, last'.key)]_vars

\* C14 (amended): InsertIndexEntryAt(pos, name) returns BadObject when the
\* node's child table does not exist (no child was ever put), and
\* DataNotFound when the table exists but holds no child of that name, which
\* includes a node whose children were all removed; in both cases the index
\* is unchanged and nothing is emitted; on success the child named name is
\* at pos and IndexChanged(INSERTED, pos, name) is emitted.
C14_BadObjectWithoutChildTable ==
  [][last'.op = "InsertIndexEntryAt" =>
       IF ~hasChildren[last'.p] THEN IndexEntryRefused("B_BAD_OBJECT")
       ELSE IF last'.key \notin ChildNames(last'.p) THEN IndexEntryRefused("B_DATA_NOT_FOUND")
       ELSE /\ last'.ret = "B_NO_ERROR"
            /\ IndexEntryInserted(last'.p, last'.pos, last'.key)]_vars

\* Witness of C14: InsertIndexEntryAt returned DataNotFound on a node whose
\* children were all removed.
C14_Witness ==
  /\ last.op = "InsertIndexEntryAt"
  /\ last.ret = "B_DATA_NOT_FOUND"
  /\ hasChildren[last.p]
  /\ children[last.p] = {}

\* ---- RemoveIndexEntryAt
\* C15: RemoveIndexEntryAt(pos) with pos inside the index removes that entry
\* only, later entries moving down by one; child tables, parent links and
\* payloads are unchanged and IndexChanged(REMOVED, pos, name) is emitted;
\* with pos out of range or no index it returns DataNotFound, changes
\* nothing and emits nothing.
C15_RemoveIndexEntryAtOnly ==
  [][last'.op = "RemoveIndexEntryAt" =>
       LET p == last'.p
           pos == last'.pos
           old == orderedIndex[p]
           new == orderedIndex'[p]
       IN IF hasIndex[p] /\ pos < Len(old)
          THEN /\ last'.ret = "B_NO_ERROR"
               /\ Len(new) = Len(old) - 1
               /\ \A i \in 1..Len(new) : new[i] = IF i <= pos THEN old[i] ELSE old[i + 1]
               /\ \A q \in NodeIds \ {p} : orderedIndex'[q] = orderedIndex[q]
               /\ events' = <<IndexChangedEv(p, "REMOVED", pos, nodeName[old[pos + 1]])>>
               /\ UNCHANGED <<alloc, nodeName, parent, depth, children, hasChildren, hasIndex,
                              orderedCounter, maxChildIDHint, data, cachedDataChecksum>>
          ELSE /\ last'.ret = "B_DATA_NOT_FOUND"
               /\ events' = <<>>
               /\ UNCHANGED NodeFields]_vars

\* Witness of C15: the first of two index entries was removed; its node has
\* a payload and is still a child.
C15_Witness ==
  /\ last.op = "RemoveIndexEntryAt"
  /\ last.ret = "B_NO_ERROR"
  /\ last.pos = 0
  /\ Len(orderedIndex[last.p]) = 1
  /\ \E c \in children[last.p] \ IndexNodes(last.p) :
       /\ nodeName[c] = events[1].name
       /\ parent[c] = last.p
       /\ data[c] # NULL

\* C16: SetData(payload) replaces the node's payload, resets its cached
\* checksum to 0 and, when a notifier is given, emits exactly one
\* NodeChanged(this, oldPayload, flags) whose oldPayload is the payload held
\* before the call, or null under the is-being-created flag; without a
\* notifier nothing is emitted. Every other field of every node is unchanged.
C16_SetDataReplacesPayload ==
  [][last'.op = "SetData" =>
       LET n == last'.p
           oldPayload == IF "ISBEINGCREATED" \in last'.setDataFlags THEN NULL ELSE data[n]
           flags == IF "ENABLESUPERCEDE" \in last'.setDataFlags THEN "ENABLESUPERCEDE" ELSE ""
       IN /\ data' = [data EXCEPT ![n] = last'.msg]
          /\ cachedDataChecksum' = [cachedDataChecksum EXCEPT ![n] = Zero32]
          /\ events' = IF last'.flag THEN <<NodeChangedEv(n, oldPayload, flags)>> ELSE <<>>
          /\ UNCHANGED <<alloc, nodeName, parent, depth, children, hasChildren,
                         orderedIndex, hasIndex, orderedCounter, maxChildIDHint>>]_vars

\* A notified SetData(NULL) on an attached node that held a payload.
C16_Witness ==
  /\ last.op = "SetData"
  /\ last.flag
  /\ last.msg = NULL
  /\ parent[last.p] # NULL
  /\ Len(events) = 1
  /\ events[1].old # NULL

\* checksum(name) + checksum(payload) mod 2^32, computed from the node's
\* fields alone.
NameAndPayloadChecksum(n) ==
  Add32(NameChecksum(nodeName[n]),
        IF data[n] = NULL THEN Zero32 ELSE MessageChecksum(data[n]))

RECURSIVE NameChecksumsOf(_)
NameChecksumsOf(q) ==
  IF q = <<>> THEN Zero32
  ELSE Add32(NameChecksum(nodeName[Head(q)]), NameChecksumsOf(Tail(q)))

\* The checksum of depth d as stated: name + payload and, when d > 0, the
\* index entries' names and the children's checksums of depth d - 1.
RECURSIVE ChecksumAsClaimed(_, _)
RECURSIVE ChildrenAsClaimed(_, _)
ChecksumAsClaimed(n, d) ==
  IF d = 0 THEN NameAndPayloadChecksum(n)
  ELSE Add32(NameAndPayloadChecksum(n),
             Add32(NameChecksumsOf(orderedIndex[n]), ChildrenAsClaimed(children[n], d - 1)))

ChildrenAsClaimed(S, d) ==
  IF S = {} THEN Zero32
  ELSE LET c == CHOOSE x \in S : TRUE
       IN Add32(ChecksumAsClaimed(c, d), ChildrenAsClaimed(S \ {c}, d))

RECURSIVE Segments(_)
Segments(path) ==
  LET slash == Strchr(path, 1)
  IN IF path = <<>> THEN <<>>
     ELSE IF slash = 0 THEN <<path>>
     ELSE <<SubSeq(path, 1, slash - 1)>> \o Segments(SubSeq(path, slash + 1, Len(path)))

\* A segment matches a name: a literal segment names it, a wildcard segment
\* matches it.
SegmentMatches(seg, nm) ==
  IF CanWildcardStringMatchMultipleValues(seg) THEN StringMatcherMatch(seg, nm) ELSE seg = nm

\* The nodes at the end of a chain of child steps from n, one step per
\* segment, at most d steps.
RECURSIVE ChainEnds(_, _, _)
ChainEnds(n, segs, d) ==
  IF segs = <<>> THEN {n}
  ELSE IF d = 0 THEN {}
  ELSE UNION {ChainEnds(c, Tail(segs), d - 1) :
                c \in {x \in children[n] : SegmentMatches(Head(segs), nodeName[x])}}

\* The nodes a search from n may return as stated: n for the empty path, the
\* search from the root for a leading '/', the chain ends otherwise.
RECURSIVE FoundAsClaimed(_, _, _)
FoundAsClaimed(n, path, d) ==
  IF path = <<>> THEN {n}
  ELSE IF Head(path) = "/" THEN FoundAsClaimed(GetRootNode(Store, n), Tail(path), d)
  ELSE ChainEnds(n, Segments(path), d)

\* The nodes at most d levels below n (n included).
RECURSIVE WithinDepth(_, _)
WithinDepth(n, d) ==
  IF d = 0 THEN {n} ELSE {n} \cup UNION {WithinDepth(c, d - 1) : c \in children[n]}

\* The path, after its leading '/' characters, has no empty segment.
RECURSIVE NoEmptySegment(_)
NoEmptySegment(path) ==
  IF path = <<>> THEN TRUE
  ELSE IF Head(path) = "/" THEN NoEmptySegment(Tail(path))
  ELSE \A i \in 1..(Len(path) - 1) : ~(path[i] = "/" /\ path[i + 1] = "/")

\* C19: FindFirstMatchingNode(path, maxDepth) returns the node itself for an
\* empty path, the result of the search from the root for a leading '/', and
\* otherwise the end of a chain of at most maxDepth child steps matching the
\* path's segments when there is one and NULL when there is none; a node
\* returned for a path without a leading '/' is at most maxDepth levels below
\* the start.
C19_FindReturnsChainEnd ==
  last.op = "FindFirstMatchingNode" =>
    LET found == FoundAsClaimed(last.p, last.key, last.pos)
    IN /\ IF found = {} THEN last.c = NULL ELSE last.c \in found
       /\ (last.c # NULL /\ (last.key = <<>> \/ Head(last.key) # "/"))
            => last.c \in WithinDepth(last.p, last.pos)

\* The same for the paths that have no empty segment.
C19_FindWithoutEmptySegment ==
  (last.op = "FindFirstMatchingNode" /\ NoEmptySegment(last.key)) =>
    LET found == FoundAsClaimed(last.p, last.key, last.pos)
    IN /\ IF found = {} THEN last.c = NULL ELSE last.c \in found
       /\ (last.c # NULL /\ (last.key = <<>> \/ Head(last.key) # "/"))
            => last.c \in WithinDepth(last.p, last.pos)

\* The effect of h.SetRef(item, doRefCount) as stated: h references item
\* with the given bit, and an object h counted before is counted once less
\* unless h counts it still.
SetRefAsClaimed(h, item, doRefCount) ==
  /\ hPtr'[h] = item
  /\ hBit'[h] = doRefCount
  /\ \A x \in Objects :
        (hPtr[h] = x /\ hBit[h] /\ ~(item = x /\ doRefCount))
          => refCount'[x] = refCount[x] - 1

\* C20: after h.SetRef(item, doRefCount), h references item and
\* IsRefCounting() is doRefCount, whatever h held before (the same item with
\* the opposite bit included), and what h referenced before is unreferenced.
C20_SetRefReferencesItem ==
  [][lastRef'.op = "SetRef" =>
       SetRefAsClaimed(lastRef'.h, lastRef'.item, lastRef'.doRefCount)]_vars

\* The same for every call but the one that turns counting off on the item
\* the handle already counts.
C20_SetRefExceptStopCounting ==
  [][(/\ lastRef'.op = "SetRef"
      /\ ~(/\ lastRef'.item # NULL
            /\ hPtr[lastRef'.h] = lastRef'.item
            /\ hBit[lastRef'.h]
            /\ ~lastRef'.doRefCount)) =>
       SetRefAsClaimed(lastRef'.h, lastRef'.item, lastRef'.doRefCount)]_vars

\* The handles that hold a counted reference to x: strong, pointing at x,
\* and not past the decrement of UnrefItem().
CountingThreads(x) ==
  {h \in Threads : hLive[h] /\ hBit[h] /\ hPtr[h] = x /\ hPc[h] = "idle"}

\* Every thread is between operations and no handle is left.
AllThreadsDone == \A h \in Threads : hPc[h] = "idle" /\ ~hLive[h]

\* No object is released twice or while a strong handle still counts it, and
\* once every handle is gone the object they shared has been released.
ReleasedOnceAndNotEarly ==
  /\ \A x \in Objects :
       /\ releases[x] <= 1
       /\ objState[x] # "live" => CountingThreads(x) = {}
       /\ refCount[x] = Cardinality(CountingThreads(x))
  /\ AllThreadsDone => \E x \in Objects : releases[x] = 1

\* A release is done by the thread whose decrement returned zero.
ReleasedByZeroDecrement ==
  \A x \in Objects :
    releases'[x] # releases[x] =>
      \E h \in Threads : /\ hPc[h] = "release" /\ hPtr[h] = x
                          /\ hPc'[h] = "clear" /\ refCount[x] = 0

\* C21: when threads concurrently release distinct strong handles to one
\* object while others copy handles they own, the object is recycled or
\* deleted exactly once, by the thread whose atomic decrement returned zero,
\* never while another strong handle still counts it, and it is not leaked.
C21_ConcurrentReleaseOnce ==
  []ReleasedOnceAndNotEarly /\ [][ReleasedByZeroDecrement]_vars

\* Two threads are inside UnrefItem() on the same object at once: both have
\* decremented, one of them has released the object, neither has cleared
\* its pointer yet.
C21_Witness ==
  \E h, g \in Threads :
    /\ h # g
    /\ hPc[h] = "clear" /\ hPc[g] = "clear"
    /\ hPtr[h] # NULL /\ hPtr[h] = hPtr[g]
    /\ releases[hPtr[h]] = 1

\* ---------------------------------------------------------------- C22
\* Handle g points to x and has not begun to let go of it.
PointsTo(g, x) ==
  hLive[g] /\ hPtr[g] = x /\ hPc[g] \in {"idle", "private", "clone", "assign"}

AllSharerHandles == 1..(2 * MaxSharers)

\* The step belongs to a call of EnsureRefIsPrivate() on h.
EnsureStep(h) ==
  /\ lastRef'.h = h
  /\ lastRef'.op \in {"IsRefPrivate", "Clone", "EnsureAssign", "EnsureRelease",
                      "EnsureRefIsPrivate"}

\* No step of the call touches an object that existed before it, except that
\* the assignment takes this handle's reference from its old object and the
\* old object goes when that was the last one.
EnsureKeepsSharedObject ==
  \A h \in Sharers : EnsureStep(h) =>
    \A x \in CloneObjects : objState[x] = "live" =>
      /\ refCount'[x] = refCount[x] -
            (IF lastRef'.op = "EnsureAssign" /\ x = hPtr[h] /\ hBit[h] THEN 1 ELSE 0)
      /\ objState'[x] # "live" =>
            lastRef'.op = "EnsureRelease" /\ x = hPtr[h] /\ refCount[x] = 0

\* Two handles whose EnsureRefIsPrivate() succeeded do not share an object.
EnsuredHandlesDiffer ==
  \A h, g \in Sharers :
    h # g /\ hPc[h] = "private" /\ hPc[g] = "private" /\ hPtr[h] # NULL =>
      hPtr[h] # hPtr[g]

\* As claimed: after B_NO_ERROR the handle counts and no other handle of
\* either kind points to its object.
EnsuredAsClaimed ==
  \A h \in Sharers : hPc[h] = "private" =>
    /\ hBit[h]
    /\ IsRefPrivate(RefStore, h)
    /\ hPtr[h] # NULL => \A g \in AllSharerHandles \ {h} : ~PointsTo(g, hPtr[h])

\* After B_NO_ERROR the handle is null, or it counts, its object's count is
\* one and every other handle that points to the object is non-counting.
EnsuredPrivate ==
  \A h \in Sharers : hPc[h] = "private" =>
    /\ IsRefPrivate(RefStore, h)
    /\ hPtr[h] # NULL =>
         /\ hBit[h]
         /\ objState[hPtr[h]] = "live"
         /\ \A g \in AllSharerHandles \ {h} : PointsTo(g, hPtr[h]) => ~hBit[g]

CastStep(h, g) ==
  /\ lastRef'.op \in {"SetFromRefCountableRef", "DowncastCtor"}
  /\ lastRef'.h = h /\ lastRef'.g = g

\* As claimed, for every such step: a source of another type gives
\* B_BAD_ARGUMENT and changes nothing (the new handle of the constructor is
\* null), a null source gives a null handle and B_NO_ERROR, and a source of
\* the right type gives B_NO_ERROR and a handle on the source's object with
\* the source's bit.
CastAsClaimed ==
  \A h \in ItemHandles, g \in Handles : CastStep(h, g) =>
    IF hPtr[g] = NULL
    THEN lastRef'.ret = "B_NO_ERROR" /\ hPtr'[h] = NULL
    ELSE IF ~IsItem(hPtr[g])
    THEN /\ lastRef'.ret = "B_BAD_ARGUMENT"
         /\ refCount' = refCount /\ objState' = objState
         /\ IF lastRef'.op = "DowncastCtor"
            THEN hPtr'[h] = NULL
            ELSE hPtr'[h] = hPtr[h] /\ hBit'[h] = hBit[h]
    ELSE /\ lastRef'.ret = "B_NO_ERROR"
         /\ hPtr'[h] = hPtr[g] /\ hBit'[h] = hBit[g]

\* C23: the downcasting constructor yields a null handle on a type mismatch;
\* SetFromRefCountableRef returns B_BAD_ARGUMENT on a mismatch and leaves the
\* handle and all reference counts as they were, makes the handle null and
\* returns B_NO_ERROR for a null source, and on a match makes the handle
\* reference the source's object with the source's do-refcount bit.
C23_SetFromRefCountableRef == [][CastAsClaimed]_vars

\* ---------------------------------------------------------------- C24
\* A Neutralize() step releases nothing, takes one from the count of the
\* object the handle held if the handle was counting it, changes no other
\* count, and leaves the handle null with its bit as it was.
NeutralizeAsClaimed ==
  lastRef'.op = "Neutralize" =>
    LET h == lastRef'.h
        item == hPtr[h]
    IN /\ objState' = objState
       /\ releases' = releases
       /\ hPtr' = [hPtr EXCEPT ![h] = NULL]
       /\ hBit' = hBit /\ hLive' = hLive
       /\ refCount' = IF item # NULL /\ hBit[h]
                      THEN [refCount EXCEPT ![item] = @ - 1]
                      ELSE refCount

\* C24: Neutralize() never deletes or recycles the held object, even when
\* the handle is the last strong one; it decrements the reference count only
\* if the handle was reference-counting, and leaves the handle null.
C24_NeutralizeNeverReleases == [][NeutralizeAsClaimed]_vars

\* The last counting handle of an object has just been neutralized: the
\* count is zero and the object still exists.
C24_Witness ==
  /\ lastRef.op = "Neutralize"
  /\ lastRef.item # NULL /\ lastRef.doRefCount
  /\ refCount[lastRef.item] = 0
  /\ objState[lastRef.item] = "live"
  /\ hPtr[lastRef.h] = NULL

\* ---------------------------------------------------------------- C25
\* A step that copy-constructs an object gives the new one count zero and
\* no manager; a step that assigns one object to another changes no count
\* and no manager; neither touches the source.
ValueKeepsCountAndManager ==
  /\ lastRef'.op = "CopyConstruct" =>
       /\ refCount' = [refCount EXCEPT ![lastRef'.dst] = 0]
       /\ manager' = [manager EXCEPT ![lastRef'.dst] = FALSE]
  /\ lastRef'.op = "AssignValue" => refCount' = refCount /\ manager' = manager

\* A Clone() step returns a counting handle to an object that did not exist
\* before, whose count is 1 and whose manager is the original's; the
\* original and every other object keep count and manager.
CloneAsClaimed ==
  lastRef'.op = "Clone" =>
    LET h == lastRef'.h
        item == lastRef'.item
        newItem == lastRef'.newItem
        ret == CopyRefOf(h)
    IN /\ objState[newItem] = "free" /\ objState'[newItem] = "live"
       /\ hLive'[ret] /\ hBit'[ret] /\ hPtr'[ret] = newItem
       /\ refCount'[newItem] = 1
       /\ manager'[newItem] = manager[item]
       /\ \A x \in CloneObjects \ {newItem} :
            refCount'[x] = refCount[x] /\ manager'[x] = manager[x]

\* C25: copying or assigning the value of a RefCountable never copies its
\* reference count or manager: Clone() returns a strong handle to a new
\* object whose count is exactly 1, obtained from the original's manager
\* when it has one; the original's count and manager are unchanged; and
\* assigning one RefCountable to another changes neither object's count.
C25_ValueCopyKeepsCount == [][ValueKeepsCountAndManager /\ CloneAsClaimed]_vars

\* A shared object that has a manager (count 2) has just been cloned: the
\* copy has count 1 and the same manager.
C25_Witness ==
  /\ lastRef.op = "Clone"
  /\ refCount[lastRef.item] = 2
  /\ manager[lastRef.item] /\ manager[lastRef.newItem]
  /\ refCount[lastRef.newItem] = 1

\* ---------------------------------------------------------------- C26
\* The node GetNewDataNode() has just handed out is as a just-created,
\* Init()'d node is: no child table, no index, no parent, depth 0, hint 0,
\* and its counter for generated names at 0.
HandedOutLikeNew ==
  last.op = "GetNewDataNode" =>
    LET n == last.c
    IN /\ children[n] = {} /\ ~hasChildren[n]
       /\ orderedIndex[n] = <<>> /\ ~hasIndex[n]
       /\ parent[n] = NULL /\ depth[n] = 0
       /\ maxChildIDHint[n] = 0
       /\ orderedCounter[n] = 0

\* C26: a DataNode that was Reset() and then Init()'d is like a just-created
\* Init()'d node: no children, no index, no parent, depth 0, and it behaves
\* the same from then on, the names generated by an unnamed
\* InsertOrderedChild (starting again at I0) included.
C26_ResetNodeLikeNew == HandedOutLikeNew

\* ---------------------------------------------------------------- C27
\* The number the claim reads from a child's name: its leading decimal
\* digits after an optional leading 'I', zero when there are none.
LeadingDigitsOf(nm) ==
  AtolDigits(nm, IF Len(nm) > 0 /\ nm[1] = "I" THEN 2 ELSE 1, 0)

\* The step attaches child c to parent p.
Attaches(p, c) ==
  /\ last'.op \in {"PutChild", "InsertOrderedChild"}
  /\ last'.ret = "B_NO_ERROR"
  /\ last'.p = p /\ last'.c = c

\* The hint of a node in use moves only when a child is attached, and then
\* to the larger of its old value and the number read from the child's name.
HintIsMaxOfLeadingDigits ==
  \A p \in alloc :
    IF \E c \in NodeIds : Attaches(p, c)
    THEN maxChildIDHint'[p] = Max(maxChildIDHint[p], LeadingDigitsOf(nodeName'[last'.c]))
    ELSE maxChildIDHint'[p] = maxChildIDHint[p]

\* C27: a parent's maxChildIDHint always equals the maximum, over the
\* children attached since Init, of the number formed by the leading decimal
\* digits of the child's name after an optional leading 'I' (zero when the
\* name has no leading digits, whatever follows), and never decreases while
\* the node is in use.
C27_HintIsMaxChildNumber == [][HintIsMaxOfLeadingDigits]_vars

\* ---------------------------------------------------------------- C28
\* C28: after MultiDataIO::Write returns a non-negative count in a call
\* where some children wrote more bytes than others, every remaining child's
\* seek position equals the position of the child that wrote the fewest
\* bytes, so that all positions are equal again.
C28_WriteEqualisesPositions ==
  lastIO.op = "Write" /\ lastIO.ret >= 0 /\
  lastIO.minWrittenBytes < lastIO.maxWrittenBytes =>
    \A i \in 1..Len(childIOs) : ioPos[childIOs[i]] = lastIO.newSeekPos

\* ---------------------------------------------------------------- C29
\* A call that returns true comes at least `interval' after the latest
\* earlier call that returned true, and only a call that returns true
\* changes lastTime.
OnceEveryKeepsInterval ==
  lastCall'.odd # lastCall.odd =>
    /\ lastCall'.ret /\ lastCall.firedAt >= 0 =>
         clock - lastCall.firedAt >= lastCall'.interval
    /\ lastTime' # lastTime => lastCall'.ret

\* C29: with a clock that never decreases, OnceEvery(interval, lastTime)
\* used with one state variable returns true no more often than once every
\* `interval' microseconds, for every uint64 interval and lastTime value,
\* and lastTime is modified only by calls that return true.
C29_OnceEveryKeepsInterval == [][OnceEveryKeepsInterval]_vars

\* ---------------------------------------------------------------- C30
\* Node x is detached and, when asked for, emptied.
Detached(x) == parent'[x] = NULL /\ depth'[x] = 0

\* What a successful RemoveChild(name) of child c from p leaves, as claimed.
RemoveChildAsClaimed ==
  (last'.op = "RemoveChild" /\ last'.ret = "B_NO_ERROR") =>
    LET c == last'.c
        S == SubtreeOf(children, c)
    IN /\ \A d \in children'[last'.p] : nodeName'[d] # last'.key
       /\ Detached(c)
       /\ IF last'.flag
          THEN /\ \A x \in S : /\ Detached(x)
                                /\ children'[x] = {}
                                /\ orderedIndex'[x] = <<>>
               /\ last'.decr = Cardinality(S)
          ELSE last'.decr = 1

\* C30: after RemoveChild(name) succeeds, name is no longer in the child map
\* and the removed node has no parent and depth 0; with recurse=true the
\* same holds for every node of the removed subtree, each of them has no
\* children and no index entries left, and the caller's node counter has
\* gone down by exactly the number of nodes in that subtree.
C30_RemoveChildPostconditions == [][RemoveChildAsClaimed]_vars

\* ------------------------------------------------------------------- C31
\* The types and nodes of a sequence of notifications, in order.
EventKinds(evs) == [i \in 1..Len(evs) |-> <<evs[i].type, evs[i].node>>]

\* The step is a successful InsertOrderedChild() with or without a request
\* for NodeChanged.
OrderedInsertStep ==
  /\ last'.op \in {"InsertOrderedChild+NodeChanged", "InsertOrderedChild-NodeChanged"}
  /\ last'.ret = "B_NO_ERROR"

InsertedAsClaimed ==
  LET p    == last'.p
      c    == last'.c
      old  == orderedIndex[p]
      hits == {i \in 1..Len(old) : nodeName[old[i]] = last'.before}
      idx  == events'[Len(events')]
      pos  == idx.pos
  IN /\ EventKinds(events') =
          <<<<"NewNode", c>>>>
          \o (IF last'.op = "InsertOrderedChild+NodeChanged" THEN <<<<"NodeChanged", c>>>> ELSE <<>>)
          \o <<<<"IndexChanged", p>>>>
     /\ idx.op = "INSERTED" /\ idx.name = nodeName'[c]
     /\ last'.key # NoName => idx.name = last'.key
     /\ IF last'.before # NoName /\ hits # {}
        THEN pos + 1 \in hits /\ \A i \in hits : i <= pos + 1
        ELSE pos = Len(old)
     /\ Len(orderedIndex'[p]) = Len(old) + 1
     /\ orderedIndex'[p][pos + 1] = c

\* C31: a successful InsertOrderedChild emits NewNode(child), then
\* NodeChanged(child) if it was asked for, then IndexChanged(INSERTED, pos,
\* name), and nothing else; pos is the position of the (last) index entry
\* named `before` when there is one and the end of the index otherwise, and
\* afterwards the entry at pos is the new child.
C31_InsertOrderedChildNotifies == [][OrderedInsertStep => InsertedAsClaimed]_vars

\* A child was inserted in front of the entry named `before`, which is not
\* the last entry of the index, without a NodeChanged request.
C31_Witness ==
  /\ last.op = "InsertOrderedChild-NodeChanged"
  /\ last.before # NoName
  /\ Len(orderedIndex[last.p]) = 3
  /\ orderedIndex[last.p][last.pos + 1] = last.c
  /\ last.pos = 1
  /\ nodeName[orderedIndex[last.p][3]] = last.before
  /\ Len(events) = 2

\* ------------------------------------------------------------------- C32
\* C32: every node that is still referenced and has a _parent has a parent
\* that is itself in use, and that parent's child table holds the node under
\* the node's name; a node replaced by PutChild keeps no _parent.
C32_ParentLinkIsOwned ==
  \A n \in alloc :
    parent[n] # NULL =>
      /\ parent[n] \in alloc
      /\ GetChild(Store, parent[n], nodeName[n]) = n

\* ------------------------------------------------------------------- C33
\* C33: for a path that does not begin with '/', FindFirstMatchingNode
\* returns NULL, the node it was called on, or a node below that node,
\* whatever the path (empty segments and a trailing '/' included).
C33_FindStaysInSubtree ==
  (last.op = "FindFirstMatchingNode" /\ (last.key = <<>> \/ Head(last.key) # "/")) =>
    last.c \in {NULL, last.p} \cup SubtreeOf(children, last.p)

\* ------------------------------------------------------------------- C34
\* The step gives a handle that points to an object another, live object
\* to count.
SwitchStep ==
  /\ lastRef'.op \in {"SetRef", "Assign"}
  /\ hPtr[lastRef'.h] # NULL
  /\ lastRef'.item \notin {NULL, hPtr[lastRef'.h]}
  /\ lastRef'.doRefCount
  /\ objState[lastRef'.item] = "live"

\* C34: when a handle h that points to x is given a different target y
\* (SetRef or operator=), y is not released during the switch: afterwards y
\* exists and h counts it, also when h was the last counting handle of x and
\* the only other counting handle of y is a data member of x.
C34_SwitchKeepsTarget ==
  [][SwitchStep =>
       LET h == lastRef'.h
           y == lastRef'.item
       IN /\ objState'[y] = "live"
          /\ releases'[y] = releases[y]
          /\ hPtr'[h] = y /\ hBit'[h]
          /\ refCount'[y] >= 1]_vars

\* ------------------------------------------------------------------- C35
\* How many entries of the index q carry the name nm.
CountOf(q, nm) == Cardinality({i \in 1..Len(q) : nodeName[q[i]] = nm})

\* The node store of the state the step leads to.
StoreAfter ==
  [alloc |-> alloc', nodeName |-> nodeName', parent |-> parent', depth |-> depth',
   children |-> children', hasChildren |-> hasChildren',
   orderedIndex |-> orderedIndex', hasIndex |-> hasIndex',
   orderedCounter |-> orderedCounter', maxChildIDHint |-> maxChildIDHint',
   data |-> data', cachedDataChecksum |-> cachedDataChecksum',
   events |-> <<>>, ret |-> "B_NO_ERROR", decr |-> 0]

\* p->ReorderChild() left everything but the order of p's index alone: the
\* child tables, the names, the length of the index and how often each name
\* is in it, and p's checksum of every depth.
OnlyPermutes(p) ==
  LET old == orderedIndex[p]
      new == orderedIndex'[p]
  IN /\ children' = children /\ hasChildren' = hasChildren
     /\ nodeName' = nodeName /\ parent' = parent /\ data' = data
     /\ Len(new) = Len(old)
     /\ \A i \in 1..Len(old) : CountOf(new, nodeName[old[i]]) = CountOf(old, nodeName[old[i]])
     /\ \A d \in 0..MaxRecursionDepth :
          CalculateChecksum(StoreAfter, p, d).sum = CalculateChecksum(Store, p, d).sum

\* The call did nothing: no index entry moved and nothing was notified.
NothingReordered(p) ==
  /\ orderedIndex' = orderedIndex
  /\ hasIndex' = hasIndex
  /\ events' = <<>>

\* The call named the child itself as the place to move it to.
BeforeItself == last'.c # NULL /\ last'.before = nodeName[last'.c]

ReorderFrame(p) ==
  /\ OnlyPermutes(p)
  /\ last'.ret # "B_NO_ERROR" => NothingReordered(p)
  /\ last'.c = NULL => last'.ret = "B_BAD_ARGUMENT"
  /\ (last'.c # NULL /\ ~hasIndex[p]) => last'.ret = "B_DATA_NOT_FOUND"
  /\ (last'.c # NULL /\ hasIndex[p] /\ ~BeforeItself /\ last'.c \notin IndexNodes(p)
        /\ last'.key \notin IndexNames(p))
       => last'.ret = "B_DATA_NOT_FOUND"

\* C35 as stated: a successful ReorderChild only permutes the index (same
\* length, same names as often, child table and the parent's checksum of
\* every depth unchanged), a failing one leaves the index unchanged, and
\* ReorderChild(c, before = c's own name) returns OK, changes nothing and
\* notifies nothing.
C35_ReorderOnlyPermutes ==
  [][\A p \in NodeIds :
       (last'.op = "ReorderChild" /\ last'.p = p) =>
         /\ ReorderFrame(p)
         /\ BeforeItself => last'.ret = "B_NO_ERROR" /\ NothingReordered(p)]_vars

\* C35 with the order of ReorderChild's tests: `before' being the child's
\* own name makes the call a successful no-op only when the parent has an
\* ordered index; without one the call returns B_DATA_NOT_FOUND.
C35_ReorderOnlyPermutesWithIndex ==
  [][\A p \in NodeIds :
       (last'.op = "ReorderChild" /\ last'.p = p) =>
         /\ ReorderFrame(p)
         /\ (BeforeItself /\ hasIndex[p]) => last'.ret = "B_NO_ERROR" /\ NothingReordered(p)]_vars

\* A child was moved to the front of an index of two entries, and a child
\* was moved before itself.
C35_Witness ==
  /\ last.op = "ReorderChild" /\ last.ret = "B_NO_ERROR"
  /\ Len(events) = 2
  /\ events[2].pos = 0 /\ events[1].pos = 1
  /\ Len(orderedIndex[last.p]) = 2
  /\ orderedIndex[last.p][1] = last.c
  /\ orderedIndex[last.p][2] # last.c

\* ------------------------------------------------------------------- C36
\* n hangs below a root by a chain of proper links: every node of the chain
\* is in its parent's child table under its own name, its name has no '/'
\* and no wildcard character, and its depth is the number of its ancestors.
RECURSIVE AttachedProperly(_)
AttachedProperly(n) ==
  \/ parent[n] = NULL
  \/ /\ GetChild(Store, parent[n], nodeName[n]) = n
     /\ \A i \in 1..Len(nodeName[n]) : nodeName[n][i] \notin {"/", "*"}
     /\ depth[n] = AncestorCount(parent, n)
     /\ AttachedProperly(parent[n])

\* The names from the root's child down to n, each with a '/' in front.
RECURSIVE SlashJoinedNames(_)
SlashJoinedNames(n) ==
  IF parent[n] = NULL THEN <<>>
  ELSE SlashJoinedNames(parent[n]) \o <<"/">> \o nodeName[n]

\* C36: for a node n attached below a root through nodes without '/' and
\* wildcard characters in their names, GetNodePath(n) is "/" followed by the
\* '/'-joined names from the root's child down to n ("/" for the root), and
\* FindFirstMatchingNode(GetNodePath(n), maxDepth) called on any node of
\* that tree returns n whenever maxDepth is at least n's depth.
C36_PathRoundTrip ==
  (last.op = "GetNodePath" /\ AttachedProperly(last.n)) =>
    /\ last.path = IF parent[last.n] = NULL THEN <<"/">> ELSE SlashJoinedNames(last.n)
    /\ (/\ GetRootNode(Store, last.start) = GetRootNode(Store, last.n)
        /\ last.maxDepth >= depth[last.n])
       => last.found = last.n

\* ------------------------------------------------------------------- C37
\* C37: after every ByteBuffer operation that returns success,
\* numValidBytes <= numAllocatedBytes, for all 32-bit sizes and offsets.
C37_ValidWithinAllocated ==
  lastBuf.ret = "B_NO_ERROR" => ~Less32(numAllocatedBytes, numValidBytes)

\* ------------------------------------------------------------------- C38
\* The children of the list old from position i (counted from 1) on.
ChildrenFrom(old, i) == {old[k] : k \in i..Len(old)}

\* new is old with some of its items left out.
RECURSIVE IsSubsequence(_, _)
IsSubsequence(new, old) ==
  IF new = <<>> THEN TRUE
  ELSE IF old = <<>> THEN FALSE
  ELSE IF Head(new) = Head(old) THEN IsSubsequence(Tail(new), Tail(old))
  ELSE IsSubsequence(new, Tail(old))

\* The children of S that fail when asked to seek.
CannotSeek(S, also) == {c \in S : ~IsSeekable(c) \/ c \in also}

\* Write() comes to seek its children when they have written unequal
\* amounts. The children are asked last to first and each for no more than
\* the least written so far, so that is when the last child writes all and
\* another one less.
WriteSeeks(old) ==
  /\ old # <<>>
  /\ old[Len(old)] \notin lastIO'.short
  /\ Range(old) \cap lastIO'.short # {}

\* Children of the list old that the call asks for something and that fail
\* at it when _absorbPartialErrors is clear: the first child failing its
\* Read() and, when it has read something, the others failing the seek; a
\* child failing its Write() and, when the children have written unequal
\* amounts, any child failing the seek; in SeekAll() the children after
\* `first' that fail the seek.
FailedChildren(old) ==
  IF lastIO'.op = "Read"
  THEN IF old = <<>> THEN {}
       ELSE IF old[1] \in lastIO'.fails THEN {old[1]}
       ELSE IF lastIO'.ret # 0 THEN CannotSeek(ChildrenFrom(old, 2), lastIO'.fails)
       ELSE {}
  ELSE IF lastIO'.op = "Write"
  THEN IF Range(old) \cap lastIO'.fails # {} THEN Range(old) \cap lastIO'.fails
       ELSE IF WriteSeeks(old) THEN CannotSeek(Range(old), {lastIO'.noSeek})
       ELSE {}
  ELSE LET asked == ChildrenFrom(old, lastIO'.first + 1)
       IN CannotSeek(asked, lastIO'.fails)
          \cup {c \in asked : Seek(ioPos[c], lastIO'.offset, lastIO'.whence) < 0}

\* Children of the list old that fail at what the call may ask of them.
FailingChildren(old) ==
  IF lastIO'.op = "Read"
  THEN (Range(old) \cap lastIO'.fails) \cup CannotSeek(ChildrenFrom(old, 2), {})
  ELSE IF lastIO'.op = "Write"
  THEN (Range(old) \cap lastIO'.fails) \cup CannotSeek(Range(old), {lastIO'.noSeek})
  ELSE FailedChildren(old)

\* The call returned an error.
IOError == lastIO'.ret = IF lastIO'.op = "SeekAll" THEN "B_ERROR" ELSE -1

\* C38: in Read, Write and SeekAll a child is removed from the list only
\* when it failed, _absorbPartialErrors is set and more than one child
\* remains, so a list that is not empty stays so; when _absorbPartialErrors
\* is clear a failing child makes the call return an error and the list is
\* unchanged.
C38_LastChildIsKept ==
  [][lastIO'.op \in {"Read", "Write", "SeekAll"} =>
       /\ IsSubsequence(childIOs', childIOs)
       /\ childIOs # <<>> => childIOs' # <<>>
       /\ childIOs' # childIOs => absorbPartialErrors /\ Len(childIOs) > 1
       /\ Range(childIOs) \ Range(childIOs') \subseteq FailingChildren(childIOs)
       /\ (~absorbPartialErrors /\ FailedChildren(childIOs) # {})
            => IOError /\ childIOs' = childIOs]_vars

\* With absorption a call has removed all children but one, although that
\* one failed too.
C38_Witness ==
  /\ lastIO.op \in {"Read", "Write", "SeekAll"}
  /\ absorbPartialErrors
  /\ Len(childIOs) = 1
  /\ childIOs[1] \in lastIO.fails
  /\ lastIO.ret = IF lastIO.op = "SeekAll" THEN "B_ERROR" ELSE -1

\* ------------------------------------------------------------------- C39
\* The step is a call of Read() on a MultiDataIO with children.
ReadStep == lastIO'.op = "Read" /\ childIOs # <<>>

\* The child whose Read() the call's last attempt asked.
LastAsked == childIOs[lastIO'.attempts]

\* C39: Read() returns 0 on a MultiDataIO without children, asking
\* nobody. Otherwise it asks the children from the first on, one attempt
\* each and never more attempts than children: every child asked before the
\* last attempt failed and was dropped under absorption, and the data come
\* from the child of the last attempt, which is then the first of the list.
\* It returns -1 only when the child asked last failed and could not be
\* dropped, or when the seek of another child failed; and after a return of
\* n > 0 every remaining child, the other ones by the seek, is n bytes
\* further on.
C39_ReadFromFirstChild ==
  [][lastIO'.op = "Read" =>
       /\ childIOs = <<>> => lastIO'.ret = 0 /\ lastIO'.attempts = 0 /\ childIOs' = <<>>
       /\ ReadStep =>
            /\ lastIO'.attempts \in 1..Len(childIOs)
            /\ \A k \in 1..(lastIO'.attempts - 1) :
                 /\ childIOs[k] \in lastIO'.fails
                 /\ childIOs[k] \notin Range(childIOs')
                 /\ absorbPartialErrors
            /\ childIOs'[1] = LastAsked
            /\ (LastAsked \in lastIO'.fails /\ absorbPartialErrors)
                 => lastIO'.attempts = Len(childIOs)
            /\ lastIO'.from = IF LastAsked \in lastIO'.fails THEN NULL ELSE LastAsked
            /\ lastIO'.ret \in -1..lastIO'.size
            /\ lastIO'.ret = -1 =>
                 \/ LastAsked \in lastIO'.fails
                      /\ (~absorbPartialErrors \/ Len(childIOs') = 1)
                 \/ /\ lastIO'.from # NULL
                    /\ CannotSeek(Range(childIOs') \ {LastAsked}, lastIO'.fails) # {}
            /\ lastIO'.ret > 0 =>
                 /\ \A c \in Range(childIOs') : ioPos'[c] = ioPos[c] + lastIO'.ret
                 /\ \A c \in IOChildren \ Range(childIOs') : ioPos'[c] = ioPos[c]
            /\ lastIO'.ret = 0 => ioPos' = ioPos]_vars

\* With absorption a Read() has dropped a failing first child and read
\* from the next, now the first.
C39_Witness ==
  /\ lastIO.op = "Read"
  /\ lastIO.attempts = 2
  /\ lastIO.ret > 0
  /\ lastIO.from = childIOs[1]
  /\ Len(childIOs) >= 1
====
